---- MODULE Spec2Model ----
(***************************************************************************)
(* Verification model of the video summarizer:                             *)
(*   - ModelManager.summarize_from_text / summarize_from_video             *)
(*     (src/models/manager.py), the backend fallback loops;                *)
(*   - GeminiClient.generate_from_text / generate_from_video               *)
(*     (src/services/gemini.py), the hosted-multimodal adapter;            *)
(*   - the batch driver main() (src/scripts/main.py) with the processing   *)
(*     ledger load_processed_log / save_processed_log (src/utils/file.py); *)
(*   - VideoOptimizer.get_strategy (src/utils/video_optimizer.py) and the  *)
(*     direct-mode attempt _process_video_direct (src/core/processor.py);  *)
(*   - the folder watcher VideoHandler (src/scripts/watch.py).             *)
(* Texts are sequences of characters; Python's None is the value None.     *)
(***************************************************************************)
EXTENDS Integers, Sequences, FiniteSets, TLC

VARIABLES
    \* ---- ModelManager (src/models/manager.py)
    summarization_models, \* config['summarization_models'], in list order
    models,               \* self.models: the enabled entries, in order
    gemini_client,        \* TRUE iff self.gemini_client is not None
    video_exists,         \* os.path.exists(video_path) for the direct-mode call
    omode,                \* which call is made: "none" | "text" | "video"
    opc,                  \* "idle" | "text" | "video" | "done" | "raised"
    oi,                   \* 1-based loop index of the backend being tried
    gemini_models,        \* summarize_from_video's filtered list
    oret,                 \* the value returned: [summary, model, duration]
    otrace,               \* history: one entry per loop iteration
    oremote,              \* history: what the hosted service answered per try
    \* ---- GeminiClient.generate_from_video (src/services/gemini.py)
    gpc,                  \* "call" | "wait" | "generate" | "returned"
    gext,                 \* extension of video_path
    gmime,                \* mime_type sent with the upload
    guploaded,            \* client.files.upload returned a file
    gfile_state,          \* video_file.state
    gremote_exists,       \* the uploaded file still exists remotely
    gdelete_attempted,    \* client.files.delete was called
    gduration,            \* duration read from video_metadata
    gpolls,               \* client.files.get calls made, counted round
                          \* 1..MaxPolls: the loop has no bound of its own
    gret,                 \* the value returned: [summary, duration]
    \* ---- batch driver and ledger (src/scripts/main.py, src/utils/file.py)
    ledger_file,          \* processed.json on disk: [state, videos]
    processed_log,        \* processed_log['videos'] of the running process
    video_files,          \* the run's list after the skip filter
    skipped,              \* history: paths the skip filter dropped this run
    skip_processed,       \* config processing.skip_processed of the run
    continue_on_error,    \* config processing.continue_on_error of the run
    bpc,                  \* "idle" | "loop" | "saving"
    bi,                   \* 1-based index of the asset being processed
    now,                  \* datetime.now(), a counter
    runs,                 \* batch runs started
    attempted,            \* history: [path, success] per attempt of this run
    committed,            \* history: entries of the last completed rewrite
    loaded_log,           \* history: what load_processed_log returned
    committed_at_start,   \* history: committed when the run started
    bexit,                \* how the last run ended: "none" | "exit" |
                          \* "finished" | "killed" | "error"
    \* ---- VideoProcessor._process_video_direct (src/core/processor.py)
    info_duration,        \* VideoInfo(video_path).duration, seconds
    ppc,                  \* "start" | "transform" | "summarize" | "finish" | "done"
    strategy,             \* what get_strategy returned
    processed_path,       \* "source" | "temp"
    is_temp,              \* processed_path != original_path
    temp_exists,          \* a temporary file of this attempt is on disk
    ptransform,           \* history: the transform called and its speedup
    pbackend,             \* history: the summarize_from_video call made,
                          \* what served it and the requests it led to
    punlinked,            \* history: the path the cleanup unlinked
    full_response,        \* the summary summarize_from_video returned
    partifacts,           \* save_results wrote the output files
    presult,              \* the attempt's return value: "none" | "True" | "False"
    plog,                 \* the failure the attempt reported
    \* ---- VideoHandler (src/scripts/watch.py)
    wfiles,               \* the watched folder: path -> "absent" | "growing" |
                          \* "stable" | "gone"
    wevents,              \* created/moved events not yet dispatched
    pending_files,        \* self.pending_files
    processing,           \* self.processing
    wcool,                \* now - self.last_process_time < cooldown_seconds
    wpc,                  \* per thread: where it is in process_videos
    wlog,                 \* per thread: the ledger its child process holds
    wtodo,                \* per thread: the assets its child has left
    wrecorded,            \* history: paths some child recorded and saved
    wchecked,             \* per thread: the files its check found complete
    wlaunch_unchecked,    \* history: files pending at a launch that the
                          \* attempt's check had not found complete
    wfired                \* history: retry wake-ups [busy, started]

VARIABLES
    tpc,              \* position of the text-mode attempt
    transcript,       \* the text transcribe returned
    tmodels,          \* the enabled models summarize_from_text iterates
    tsummary,         \* (summary, model_name) of summarize_from_text
    tbackends,        \* whether the call was made and every backend failed
    twritten,         \* the artifacts written, in the order of writing
    transcript_file,  \* content of transcript_only_<stem>.txt, None if absent
    tresult,          \* "none", "True" or "False"
    tlog              \* the failure narrated

VARIABLES
    stext,            \* the text given to parse_dual_summary
    spc,              \* "off", "given" or "split"
    sout              \* what parse_dual_summary returned

VARIABLES
    ysummary,         \* the detailed text given to generate_youtube_simple
    ypc,              \* "off", "given", "derived" or "validated"
    youtube,          \* the short-form text generate_youtube_simple returned
    yvalid            \* what validate_youtube_format returned for it

VARIABLES
    segments,         \* the transcript segments given to create_timeline
    num_points,       \* the number of time points asked for
    kpc,              \* "off", "given" or "made"
    timeline          \* what create_timeline returned

VARIABLES
    lpc,              \* "off", "call", "stream" or "returned"
    lsummary,         \* the text accumulated by _call_ollama
    ltokens,          \* the partial tokens received, in arrival order
    llines,           \* the number of lines the stream has delivered
    lend,             \* how the call ended
    lret              \* what _call_ollama returned

ovars == <<summarization_models, models, gemini_client, video_exists, omode,
           opc, oi, gemini_models, oret, otrace, oremote>>
gvars == <<gpc, gext, gmime, guploaded, gfile_state, gremote_exists,
           gdelete_attempted, gduration, gpolls, gret>>
bvars == <<ledger_file, processed_log, video_files, skipped, skip_processed,
           continue_on_error, bpc, bi, now, runs, attempted, committed,
           loaded_log, committed_at_start, bexit>>
pvars == <<info_duration, ppc, strategy, processed_path, is_temp, temp_exists,
           ptransform, pbackend, punlinked, full_response, partifacts, presult,
           plog>>
wvars == <<wfiles, wevents, pending_files, processing, wcool, wpc, wlog, wtodo,
           wchecked, wrecorded, wlaunch_unchecked, wfired>>
\* the text-mode attempt (_process_whisper)
tvars == <<tpc, transcript, tmodels, tsummary, tbackends, twritten,
           transcript_file, tresult, tlog>>
\* one call of Summarizer.parse_dual_summary
svars == <<stext, spc, sout>>
\* generate_youtube_simple followed by validate_youtube_format
yvars == <<ysummary, ypc, youtube, yvalid>>
\* one call of create_timeline
kvars == <<segments, num_points, kpc, timeline>>
\* one call of ModelManager._call_ollama
lvars == <<lpc, lsummary, ltokens, llines, lend, lret>>
vars == <<ovars, gvars, bvars, pvars, wvars, tvars, svars, yvars, kvars, lvars>>

----------------------------------------------------------------------------
(* Bounds *)
MaxModels == 3
MaxTextLen == 2
MaxPolls == 2
MaxVideos == 3
MaxRuns == 3
MaxClock == 5

(* Values *)
None == <<"None">>
NoneName == "None"
NoneDuration == "None"
Chars == {"x", " "}
Durations == {NoneDuration, "d1"}
ModelTypes == {"gemini", "ollama", "other"}
ModelNames == <<"m1", "m2", "m3", "m4", "m5">>

RECURSIVE SeqsUpTo(_, _)
SeqsUpTo(S, n) ==
    IF n = 0 THEN {<<>>}
    ELSE LET shorter == SeqsUpTo(S, n - 1)
         IN  shorter \cup {Append(s, c) : s \in {t \in shorter : Len(t) = n - 1}, c \in S}

Texts == SeqsUpTo(Chars, MaxTextLen)

\* Python truthiness of an Optional[str]: None and "" are falsy.
Truthy(v) == v # None /\ v # <<>>

\* str.strip(): drop leading and trailing whitespace.
RECURSIVE LStrip(_)
LStrip(s) == IF s # <<>> /\ Head(s) = " " THEN LStrip(Tail(s)) ELSE s
RECURSIVE RStrip(_)
RStrip(s) == IF s # <<>> /\ s[Len(s)] = " " THEN RStrip(SubSeq(s, 1, Len(s) - 1)) ELSE s
Strip(s) == RStrip(LStrip(s))

----------------------------------------------------------------------------
(* ModelManager.__init__: the enabled models, in configured order *)
AllModels(cfg) == cfg
EnabledModels(cfg) == SelectSeq(cfg, LAMBDA m : m.enabled)

\* The configurations: 1..MaxModels entries, entry i named ModelNames[i].
Configs ==
    UNION {{[i \in 1..n |-> [name |-> ModelNames[i], type |-> t[i], enabled |-> e[i]]] :
               t \in [1..n -> ModelTypes], e \in [1..n -> BOOLEAN]} : n \in 1..MaxModels}

----------------------------------------------------------------------------
(* Backend outcomes: what the remote service or the transport does when a  *)
(* backend is called. kind "response"/"stream" carries the raw text.       *)
GeminiTextOutcomes ==
    {[kind |-> "exception", text |-> <<>>, blocked |-> FALSE]}
    \cup [kind : {"response"}, text : Texts, blocked : BOOLEAN]

OllamaOutcomes ==
    [kind : {"timeout", "error", "stall"}, text : {<<>>}, blocked : {FALSE}]
    \cup [kind : {"stream"}, text : Texts, blocked : {FALSE}]

NoOutcome == [kind |-> "none", text |-> <<>>, blocked |-> FALSE]

OutcomesFor(type) ==
    CASE type = "gemini" -> GeminiTextOutcomes
      [] type = "ollama" -> OllamaOutcomes
      [] OTHER -> {NoOutcome}

\* GeminiClient.generate_from_text: every exception is caught inside and
\* becomes None; an empty text or a block reason is None; else text.strip().
GenerateFromText(out) ==
    IF out.kind = "exception" THEN None
    ELSE IF out.text = <<>> THEN None
    ELSE IF out.blocked THEN None
    ELSE Strip(out.text)

\* ModelManager._call_gemini_text: raises when the client was never built.
CallGeminiText(client, out) ==
    IF ~client THEN [raised |-> TRUE, value |-> None]
    ELSE [raised |-> FALSE, value |-> GenerateFromText(out)]

\* ModelManager._call_ollama: connect timeout, any error and an inactivity
\* stall give None; a stream gives summary.strip() if summary else None.
CallOllama(out) ==
    CASE out.kind = "timeout" -> None
      [] out.kind = "error" -> None
      [] out.kind = "stall" -> None
      [] OTHER -> IF out.text # <<>> THEN Strip(out.text) ELSE None

\* One iteration of summarize_from_text's loop (the try/except body):
\* ctl is what the loop does next.
TextLoopBodyNoCatch(m, client, out) ==
    IF m.type = "gemini" THEN
        LET r == CallGeminiText(client, out)
        IN  [ctl |-> IF r.raised THEN "raise"
                     ELSE IF Truthy(r.value) THEN "return" ELSE "continue",
             invoked |-> TRUE, raised |-> r.raised, value |-> r.value]
    ELSE IF m.type = "ollama" THEN
        LET v == CallOllama(out)
        IN  [ctl |-> IF Truthy(v) THEN "return" ELSE "continue",
             invoked |-> TRUE, raised |-> FALSE, value |-> v]
    ELSE [ctl |-> "continue", invoked |-> FALSE, raised |-> FALSE, value |-> None]

TextLoopBody(m, client, out) ==
    IF m.type = "gemini" THEN
        LET r == CallGeminiText(client, out)
        IN  [ctl |-> IF r.raised THEN "continue"
                     ELSE IF Truthy(r.value) THEN "return" ELSE "continue",
             invoked |-> TRUE, raised |-> r.raised, value |-> r.value]
    ELSE IF m.type = "ollama" THEN
        LET v == CallOllama(out)
        IN  [ctl |-> IF Truthy(v) THEN "return" ELSE "continue",
             invoked |-> TRUE, raised |-> FALSE, value |-> v]
    ELSE [ctl |-> "continue", invoked |-> FALSE, raised |-> FALSE, value |-> None]

EmptyResult == [summary |-> None, model |-> NoneName, duration |-> NoneDuration]

----------------------------------------------------------------------------
(* summarize_from_text *)
SummarizeFromText ==
    /\ opc = "idle"
    /\ opc' = "text"
    /\ omode' = "text"
    /\ oi' = 1
    /\ UNCHANGED <<summarization_models, models, gemini_client, video_exists,
                   gemini_models, oret, otrace, oremote>>
    /\ UNCHANGED <<gvars, bvars, pvars, wvars, tvars, svars, yvars, kvars, lvars>>

TextTry ==
    /\ opc = "text"
    /\ oi <= Len(models)
    /\ LET m == models[oi] IN
       \E out \in OutcomesFor(m.type) :
          LET s == TextLoopBody(m, gemini_client, out) IN
          /\ otrace' = Append(otrace, [name |-> m.name, invoked |-> s.invoked,
                                       raised |-> s.raised, value |-> s.value])
          /\ IF s.ctl = "return"
             THEN /\ oret' = [summary |-> s.value, model |-> m.name,
                              duration |-> NoneDuration]
                  /\ opc' = "done"
                  /\ oi' = oi
             ELSE IF s.ctl = "raise"
             THEN /\ opc' = "raised"
                  /\ UNCHANGED <<oret, oi>>
             ELSE /\ oi' = oi + 1
                  /\ UNCHANGED <<oret, opc>>
    /\ UNCHANGED <<summarization_models, models, gemini_client, video_exists,
                   omode, gemini_models, oremote>>
    /\ UNCHANGED <<gvars, bvars, pvars, wvars, tvars, svars, yvars, kvars, lvars>>

TextExhausted ==
    /\ opc = "text"
    /\ oi > Len(models)
    /\ oret' = EmptyResult
    /\ opc' = "done"
    /\ UNCHANGED <<summarization_models, models, gemini_client, video_exists,
                   omode, oi, gemini_models, otrace, oremote>>
    /\ UNCHANGED <<gvars, bvars, pvars, wvars, tvars, svars, yvars, kvars, lvars>>

----------------------------------------------------------------------------
(* Direct mode: GeminiClient.generate_from_video as summarize_from_video   *)
(* calls it.                                                               *)

\* What the hosted service does with one upload-poll-generate cycle.
GeminiVideoOutcomes ==
    [kind : {"upload_error", "poll_error", "failed", "gen_error"},
     text : {<<>>}, blocked : {FALSE}, duration : {NoneDuration}]
    \cup [kind : {"response"}, text : Texts, blocked : BOOLEAN, duration : Durations]

\* generate_from_video's result for a call that binds its parameters:
\* (None, None) on any exception, on state FAILED, on an empty text and on
\* a block reason; else (response.text.strip(), duration).
GenerateFromVideo(out) ==
    IF out.kind # "response" THEN [summary |-> None, duration |-> NoneDuration]
    ELSE IF out.text = <<>> THEN [summary |-> None, duration |-> NoneDuration]
    ELSE IF out.blocked THEN [summary |-> None, duration |-> NoneDuration]
    ELSE [summary |-> Strip(out.text), duration |-> out.duration]

\* Positional parameters generate_from_video declares besides self
\* (video_path, prompt, model_id, config, media_resolution) and the
\* positional arguments summarize_from_video passes (the five and fps).
GenerateFromVideoParams == 5
GenerateFromVideoArgs == 6

\* The call self.gemini_client.generate_from_video(...): AttributeError when
\* the client is None, TypeError when more arguments are passed than the
\* method declares; the body runs only otherwise.
CallGenerateFromVideo(client, nargs, out) ==
    IF ~client THEN [raised |-> TRUE, summary |-> None, duration |-> NoneDuration]
    ELSE IF nargs > GenerateFromVideoParams
    THEN [raised |-> TRUE, summary |-> None, duration |-> NoneDuration]
    ELSE [raised |-> FALSE, summary |-> GenerateFromVideo(out).summary,
          duration |-> GenerateFromVideo(out).duration]

\* One iteration of summarize_from_video's loop (the try/except body).
VideoLoopBody(m, client, out) ==
    LET r == CallGenerateFromVideo(client, GenerateFromVideoArgs, out)
    IN  [ctl |-> IF r.raised THEN "continue"
                 ELSE IF Truthy(r.summary) THEN "return" ELSE "continue",
         invoked |-> ~r.raised, raised |-> r.raised,
         value |-> r.summary, duration |-> r.duration]

\* gemini_models = [m for m in self.models if m['type'] == 'gemini']
GeminiModels(ms) == SelectSeq(ms, LAMBDA m : m.type = "gemini")

SummarizeFromVideo ==
    /\ opc = "idle"
    /\ omode' = "video"
    /\ oi' = 1
    /\ IF ~video_exists
       THEN /\ oret' = EmptyResult
            /\ opc' = "done"
            /\ UNCHANGED gemini_models
       ELSE /\ gemini_models' = GeminiModels(models)
            /\ IF gemini_models' = <<>>
               THEN oret' = EmptyResult /\ opc' = "done"
               ELSE opc' = "video" /\ UNCHANGED oret
    /\ UNCHANGED <<summarization_models, models, gemini_client, video_exists,
                   otrace, oremote>>
    /\ UNCHANGED <<gvars, bvars, pvars, wvars, tvars, svars, yvars, kvars, lvars>>

VideoTry ==
    /\ opc = "video"
    /\ oi <= Len(gemini_models)
    /\ LET m == gemini_models[oi] IN
       \E out \in GeminiVideoOutcomes :
          LET s == VideoLoopBody(m, gemini_client, out) IN
          /\ otrace' = Append(otrace, [name |-> m.name, invoked |-> s.invoked,
                                       raised |-> s.raised, value |-> s.value])
          /\ oremote' = Append(oremote, GenerateFromVideo(out))
          /\ IF s.ctl = "return"
             THEN /\ oret' = [summary |-> s.value, model |-> m.name,
                              duration |-> s.duration]
                  /\ opc' = "done"
                  /\ oi' = oi
             ELSE /\ oi' = oi + 1
                  /\ UNCHANGED <<oret, opc>>
    /\ UNCHANGED <<summarization_models, models, gemini_client, video_exists,
                   omode, gemini_models>>
    /\ UNCHANGED <<gvars, bvars, pvars, wvars, tvars, svars, yvars, kvars, lvars>>

VideoExhausted ==
    /\ opc = "video"
    /\ oi > Len(gemini_models)
    /\ oret' = EmptyResult
    /\ opc' = "done"
    /\ UNCHANGED <<summarization_models, models, gemini_client, video_exists,
                   omode, oi, gemini_models, otrace, oremote>>
    /\ UNCHANGED <<gvars, bvars, pvars, wvars, tvars, svars, yvars, kvars, lvars>>

InitOrch ==
    /\ summarization_models \in Configs
    /\ models = EnabledModels(summarization_models)
    /\ gemini_client \in BOOLEAN
    /\ video_exists \in BOOLEAN
    /\ omode = "none"
    /\ opc = "idle"
    /\ oi = 1
    /\ gemini_models = <<>>
    /\ oret = EmptyResult
    /\ otrace = <<>>
    /\ oremote = <<>>

NextOrch ==
    \/ SummarizeFromText
    \/ TextTry
    \/ TextExhausted
    \/ SummarizeFromVideo
    \/ VideoTry
    \/ VideoExhausted

----------------------------------------------------------------------------
(* GeminiClient.generate_from_video, step by step. Every step is inside    *)
(* the method's try block: an exception at any step is caught by the outer *)
(* except, which returns (None, None).                                     *)

Extensions == {".mp4", ".mkv", ".bin"}

\* mime_types.get(ext, 'video/mp4')
MimeType(ext) ==
    CASE ext = ".mp4" -> "video/mp4"
      [] ext = ".mkv" -> "video/x-matroska"
      [] OTHER -> "video/mp4"

NoneResult == [summary |-> None, duration |-> NoneDuration]

\* _cleanup_file: files.delete is attempted; a failure is swallowed.
CleanupFile(exists, deleted) == exists /\ ~deleted

\* client.files.upload
GUpload ==
    /\ gpc = "call"
    /\ gmime' = MimeType(gext)
    /\ \E st \in {"error", "PROCESSING", "ACTIVE", "FAILED"} :
          IF st = "error"
          THEN /\ gret' = NoneResult
               /\ gpc' = "returned"
               /\ UNCHANGED <<guploaded, gfile_state, gremote_exists>>
          ELSE /\ guploaded' = TRUE
               /\ gremote_exists' = TRUE
               /\ gfile_state' = st
               /\ gpc' = "wait"
               /\ UNCHANGED gret
    /\ UNCHANGED <<gext, gdelete_attempted, gduration, gpolls>>
    /\ UNCHANGED <<ovars, bvars, pvars, wvars, tvars, svars, yvars, kvars, lvars>>

\* while video_file.state == "PROCESSING": sleep; files.get
GPoll ==
    /\ gpc = "wait"
    /\ gfile_state = "PROCESSING"
    /\ gpolls' = (gpolls % MaxPolls) + 1
    /\ \E st \in {"error", "PROCESSING", "ACTIVE", "FAILED"} :
          /\ IF st = "error"
             THEN /\ gret' = NoneResult
                  /\ gpc' = "returned"
                  /\ UNCHANGED gfile_state
             ELSE /\ gfile_state' = st
                  /\ UNCHANGED <<gret, gpc>>
    /\ UNCHANGED <<gext, gmime, guploaded, gremote_exists, gdelete_attempted,
                   gduration>>
    /\ UNCHANGED <<ovars, bvars, pvars, wvars, tvars, svars, yvars, kvars, lvars>>

\* if state == "FAILED": return None, None; else read the duration
GCheckState ==
    /\ gpc = "wait"
    /\ gfile_state # "PROCESSING"
    /\ IF gfile_state = "FAILED"
       THEN /\ gret' = NoneResult
            /\ gpc' = "returned"
            /\ UNCHANGED gduration
       ELSE /\ gduration' \in Durations
            /\ gpc' = "generate"
            /\ UNCHANGED gret
    /\ UNCHANGED <<gext, gmime, guploaded, gfile_state, gremote_exists,
                   gdelete_attempted, gpolls>>
    /\ UNCHANGED <<ovars, bvars, pvars, wvars, tvars, svars, yvars, kvars, lvars>>

\* models.generate_content, the validation of the response, the cleanup
GGenerate ==
    /\ gpc = "generate"
    /\ gpc' = "returned"
    /\ \E out \in {o \in GeminiVideoOutcomes : o.kind \in {"gen_error", "response"}
                                              /\ o.duration = gduration} :
          IF out.kind = "gen_error"
          THEN /\ gret' = NoneResult
               /\ UNCHANGED <<gremote_exists, gdelete_attempted>>
          ELSE /\ gret' = GenerateFromVideo(out)
               /\ gdelete_attempted' = TRUE
               /\ \E deleted \in BOOLEAN :
                     gremote_exists' = CleanupFile(gremote_exists, deleted)
    /\ UNCHANGED <<gext, gmime, guploaded, gfile_state, gduration, gpolls>>
    /\ UNCHANGED <<ovars, bvars, pvars, wvars, tvars, svars, yvars, kvars, lvars>>

InitGemini ==
    /\ gpc = "call"
    /\ gext \in Extensions
    /\ gmime = "none"
    /\ guploaded = FALSE
    /\ gfile_state = "none"
    /\ gremote_exists = FALSE
    /\ gdelete_attempted = FALSE
    /\ gduration = NoneDuration
    /\ gpolls = 0
    /\ gret = NoneResult

NextGemini ==
    \/ GUpload
    \/ GPoll
    \/ GCheckState
    \/ GGenerate

----------------------------------------------------------------------------
(* The processing ledger and the batch driver main().                      *)
(* processed_log['videos'] is a dict: a set of entries, one per key.       *)

Paths == <<"a.mp4", "b.mp4", "c.mp4", "d.mp4">>

\* get_video_files: the folder's videos, sorted.
VideoDir == SubSeq(Paths, 1, MaxVideos)

Range(f) == {f[i] : i \in DOMAIN f}

\* d[k] = v of a Python dict: the entry of key k is replaced.
DictAdd(d, k, v) == d \cup {[path |-> k, processed_at |-> v.processed_at,
                            success |-> v.success]}
DictSet(d, k, v) ==
    {e \in d : e.path # k} \cup {[path |-> k, processed_at |-> v.processed_at,
                                 success |-> v.success]}

\* k in d
HasKey(d, k) == \E e \in d : e.path = k

\* load_processed_log: the file's mapping; a fresh empty ledger when the
\* file is absent or json.load fails on it.
LoadProcessedLog(file) == IF file.state = "ok" THEN file.videos ELSE {}

\* open(log_file, 'w') truncates; json.dump then writes the whole mapping.
OpenForWrite(file) == [state |-> "partial", videos |-> {}]
SaveProcessedLog(log) == [state |-> "ok", videos |-> log]

\* main's skip filter: os.path.abspath(vf) not in processed_log['videos']
IsProcessedIfSuccess(log, path) == \E e \in log : e.path = path /\ e.success
IsProcessed(log, path) == HasKey(log, path)

Unprocessed(files, log) == SelectSeq(files, LAMBDA vf : ~IsProcessed(log, vf))

\* main lines 109-122: the entry written for an attempt
RecordOnlySuccess(log, path, at, success) ==
    IF success THEN DictSet(log, path, [processed_at |-> at, success |-> TRUE])
    ELSE log
RecordAttempt(log, path, at, success) ==
    DictSet(log, path, [processed_at |-> at, success |-> success])

AbsentFile == [state |-> "absent", videos |-> {}]

\* How processor.process(video_path) ends for an asset, and what it returns:
\* False when the duration is unknown (get_strategy gives None), when the
\* asset is rejected as too long, when every backend failed and when the
\* transcript is empty; True only after save_results.
AttemptOutcomes ==
    {"ok", "unknown_duration", "reject", "backends_exhausted", "empty_transcript"}
ProcessReturns(outcome) == outcome = "ok"

\* main up to the loop: load the ledger, filter, exit when nothing is left
\* or when VideoProcessor(config) cannot be built
BatchStart ==
    /\ bpc = "idle"
    /\ runs < MaxRuns
    /\ runs' = runs + 1
    /\ \E sp \in BOOLEAN, coe \in BOOLEAN, init_ok \in BOOLEAN :
          LET log == LoadProcessedLog(ledger_file)
              files == IF sp THEN Unprocessed(VideoDir, log) ELSE VideoDir
          IN  /\ skip_processed' = sp
              /\ continue_on_error' = coe
              /\ loaded_log' = log
              /\ committed_at_start' = committed
              /\ skipped' = Range(VideoDir) \ Range(files)
              /\ attempted' = <<>>
              /\ bi' = 1
              /\ IF files = <<>> \/ ~init_ok
                 THEN /\ bpc' = "idle"
                      /\ bexit' = "exit"
                      /\ processed_log' = {}
                      /\ video_files' = <<>>
                 ELSE /\ bpc' = "loop"
                      /\ bexit' = "none"
                      /\ processed_log' = log
                      /\ video_files' = files
    /\ UNCHANGED <<ledger_file, now, committed>>
    /\ UNCHANGED <<ovars, gvars, pvars, wvars, tvars, svars, yvars, kvars, lvars>>

\* processor.process(video_path), the entry, and save_processed_log up to
\* the truncating open
ProcessVideo ==
    /\ bpc = "loop"
    /\ bi <= Len(video_files)
    /\ now < MaxClock
    /\ now' = now + 1
    /\ \E outcome \in AttemptOutcomes :
          /\ processed_log' = RecordAttempt(processed_log, video_files[bi], now',
                                            ProcessReturns(outcome))
          /\ attempted' = Append(attempted, [path |-> video_files[bi],
                                             success |-> ProcessReturns(outcome),
                                             outcome |-> outcome])
    /\ ledger_file' = OpenForWrite(ledger_file)
    /\ bpc' = "saving"
    /\ UNCHANGED <<video_files, skipped, skip_processed, continue_on_error, bi,
                   runs, committed, loaded_log, committed_at_start, bexit>>
    /\ UNCHANGED <<ovars, gvars, pvars, wvars, tvars, svars, yvars, kvars, lvars>>

\* json.dump completes; then break, the next asset, or the end of the loop
SaveFinish ==
    /\ bpc = "saving"
    /\ ledger_file' = SaveProcessedLog(processed_log)
    /\ committed' = ledger_file'.videos
    /\ IF (~attempted[Len(attempted)].success /\ ~continue_on_error)
          \/ bi = Len(video_files)
       THEN /\ bpc' = "idle"
            /\ bexit' = "finished"
            /\ processed_log' = {}
            /\ UNCHANGED bi
       ELSE /\ bpc' = "loop"
            /\ bi' = bi + 1
            /\ UNCHANGED <<processed_log, bexit>>
    /\ UNCHANGED <<video_files, skipped, skip_processed, continue_on_error, now,
                   runs, attempted, loaded_log, committed_at_start>>
    /\ UNCHANGED <<ovars, gvars, pvars, wvars, tvars, svars, yvars, kvars, lvars>>

\* json.dump raises inside save_processed_log (the disk is full, an I/O
\* error): nothing in save_processed_log or in main's loop catches it, so
\* the run ends with the traceback and the file stays truncated.
SaveRaises ==
    /\ bpc = "saving"
    /\ bpc' = "idle"
    /\ bexit' = "error"
    /\ processed_log' = {}
    /\ UNCHANGED <<ledger_file, video_files, skipped, skip_processed,
                   continue_on_error, bi, now, runs, attempted, committed,
                   loaded_log, committed_at_start>>
    /\ UNCHANGED <<ovars, gvars, pvars, wvars, tvars, svars, yvars, kvars, lvars>>

\* The process is stopped from outside (the operator's interrupt, a kill,
\* power loss): memory is lost, the file stays as it is, truncated if the
\* rewrite was under way.
Crash ==
    /\ bpc \in {"loop", "saving"}
    /\ bpc' = "idle"
    /\ bexit' = "killed"
    /\ processed_log' = {}
    /\ UNCHANGED <<ledger_file, video_files, skipped, skip_processed,
                   continue_on_error, bi, now, runs, attempted, committed,
                   loaded_log, committed_at_start>>
    /\ UNCHANGED <<ovars, gvars, pvars, wvars, tvars, svars, yvars, kvars, lvars>>

\* The operator clears the ledger between runs.
ClearLedger ==
    /\ bpc = "idle"
    /\ ledger_file.state # "absent"
    /\ ledger_file' = AbsentFile
    /\ committed' = {}
    /\ UNCHANGED <<processed_log, video_files, skipped, skip_processed,
                   continue_on_error, bpc, bi, now, runs, attempted,
                   loaded_log, committed_at_start, bexit>>
    /\ UNCHANGED <<ovars, gvars, pvars, wvars, tvars, svars, yvars, kvars, lvars>>

InitLedger ==
    /\ ledger_file = AbsentFile
    /\ processed_log = {}
    /\ video_files = <<>>
    /\ skipped = {}
    /\ skip_processed = TRUE
    /\ continue_on_error = TRUE
    /\ bpc = "idle"
    /\ bi = 1
    /\ now = 0
    /\ runs = 0
    /\ attempted = <<>>
    /\ committed = {}
    /\ loaded_log = {}
    /\ committed_at_start = {}
    /\ bexit = "none"

NextLedger ==
    \/ BatchStart
    \/ ProcessVideo
    \/ SaveFinish
    \/ SaveRaises
    \/ Crash
    \/ ClearLedger

----------------------------------------------------------------------------
(* VideoOptimizer (src/utils/video_optimizer.py) and the direct-mode       *)
(* attempt VideoProcessor._process_video_direct (src/core/processor.py).   *)
(* A duration is info.duration in whole seconds, 0.0 when ffprobe failed.  *)
(* Token amounts are kept in quarter tokens (TokenScale) and rates in half *)
(* tokens per second, so that 27.5 and a halved duration stay integers.    *)

MaxDurationSec == 18000
MaxNegativeSec == 2
DurationsSec == (0 - MaxNegativeSec)..MaxDurationSec

SecondsPerMinute == 60
Tier1MaxMinutes == 40
Tier2MaxMinutes == 80
Tier3MaxMinutes == 120
Tier4MaxMinutes == 240

TokenScale == 4
TOKEN_RATE_VIDEO_FPS1 == 55
TOKEN_RATE_VIDEO_FPS05_X2 == 55
TOKEN_RATE_AUDIO == 32
RATE_FPS1_X2 == 2 * (TOKEN_RATE_VIDEO_FPS1 + TOKEN_RATE_AUDIO)
RATE_FPS05_X2 == TOKEN_RATE_VIDEO_FPS05_X2 + 2 * TOKEN_RATE_AUDIO
RATE_AUDIO_ONLY_X2 == 2 * TOKEN_RATE_AUDIO
TOKEN_LIMIT == 250000
SAFETY_MARGIN_PCT == 95
EFFECTIVE_LIMIT_X4 == (TokenScale * TOKEN_LIMIT * SAFETY_MARGIN_PCT) \div 100

\* get_strategy's None, returned both for duration 0 and by _reject_too_long
NoStrategy ==
    [speedup |-> 0, fps |-> "None", audio_only |-> FALSE,
     description |-> "None", estimated_tokens |-> 0]

StrategyTier1 ==
    [speedup |-> 1, fps |-> "None", audio_only |-> FALSE, description |-> "tier1"]
StrategyTier2 ==
    [speedup |-> 2, fps |-> "None", audio_only |-> FALSE, description |-> "tier2"]
StrategyTier3 ==
    [speedup |-> 2, fps |-> "0.5", audio_only |-> FALSE, description |-> "tier3"]
StrategyTier4 ==
    [speedup |-> 2, fps |-> "None", audio_only |-> TRUE, description |-> "tier4"]

\* _estimate_tokens, in quarter tokens: processed_duration * rate
EstimateTokensOneRate(duration, s) ==
    ((2 * duration) \div s.speedup) * RATE_FPS1_X2
EstimateTokensIgnoringSpeedup(duration, s) ==
    IF s.audio_only THEN 2 * duration * RATE_AUDIO_ONLY_X2
    ELSE IF s.fps = "0.5" THEN 2 * duration * RATE_FPS05_X2
    ELSE 2 * duration * RATE_FPS1_X2
EstimateTokens(duration, s) ==
    LET processed_duration_x2 == (2 * duration) \div s.speedup
    IN  IF s.audio_only THEN processed_duration_x2 * RATE_AUDIO_ONLY_X2
        ELSE IF s.fps = "0.5" THEN processed_duration_x2 * RATE_FPS05_X2
        ELSE processed_duration_x2 * RATE_FPS1_X2

\* The tier chain of get_strategy; duration_minutes <= N is duration <= 60 N
TierOfExclusiveBounds(duration) ==
    IF duration < Tier1MaxMinutes * SecondsPerMinute THEN StrategyTier1
    ELSE IF duration < Tier2MaxMinutes * SecondsPerMinute THEN StrategyTier2
    ELSE IF duration < Tier3MaxMinutes * SecondsPerMinute THEN StrategyTier3
    ELSE IF duration < Tier4MaxMinutes * SecondsPerMinute THEN StrategyTier4
    ELSE NoStrategy
TierOfNoReject(duration) ==
    IF duration <= Tier1MaxMinutes * SecondsPerMinute THEN StrategyTier1
    ELSE IF duration <= Tier2MaxMinutes * SecondsPerMinute THEN StrategyTier2
    ELSE IF duration <= Tier3MaxMinutes * SecondsPerMinute THEN StrategyTier3
    ELSE StrategyTier4
TierOf(duration) ==
    IF duration <= Tier1MaxMinutes * SecondsPerMinute THEN StrategyTier1
    ELSE IF duration <= Tier2MaxMinutes * SecondsPerMinute THEN StrategyTier2
    ELSE IF duration <= Tier3MaxMinutes * SecondsPerMinute THEN StrategyTier3
    ELSE IF duration <= Tier4MaxMinutes * SecondsPerMinute THEN StrategyTier4
    ELSE NoStrategy

\* VideoOptimizer.get_strategy
GetStrategy(duration) ==
    IF duration = 0 THEN NoStrategy
    ELSE LET s == TierOf(duration) IN
         IF s = NoStrategy THEN NoStrategy
         ELSE [speedup |-> s.speedup, fps |-> s.fps, audio_only |-> s.audio_only,
               description |-> s.description,
               estimated_tokens |-> EstimateTokens(duration, s)]

\* if estimated_tokens > self.EFFECTIVE_LIMIT: the warning is printed
OverLimitWarning(s) == s.estimated_tokens > EFFECTIVE_LIMIT_X4

\* speed_up_video: the input path when speedup is 1.0; else a temporary
\* file is created and ffmpeg run: exit 0 gives the temporary path, another
\* exit code unlinks it and gives the input path, and when ffmpeg cannot be
\* started subprocess.run raises with the temporary file left on disk.
EncoderOutcomes == {"ok", "nonzero", "cannot_start"}
SpeedUpVideo(speedup, enc) ==
    IF speedup = 1 THEN [path |-> "source", temp_exists |-> FALSE, raised |-> FALSE]
    ELSE CASE enc = "ok" -> [path |-> "temp", temp_exists |-> TRUE, raised |-> FALSE]
           [] enc = "nonzero" -> [path |-> "source", temp_exists |-> FALSE, raised |-> FALSE]
           [] OTHER -> [path |-> "source", temp_exists |-> TRUE, raised |-> TRUE]

\* extract_audio(video_path, speedup): a new temporary audio file, or the
\* source path when the extraction fails.
ExtractAudio(speedup, enc) ==
    IF enc = "ok" THEN [path |-> "temp", temp_exists |-> TRUE, raised |-> FALSE]
    ELSE [path |-> "source", temp_exists |-> FALSE, raised |-> FALSE]

\* is_temp = (processed_path != original_path)
IsTempAlways(processed, original) == TRUE
IsTemp(processed, original) == processed # original

\* The generate_content request of generate_from_video: model, contents and
\* a config of temperature, top_p, top_k, max_output_tokens and
\* media_resolution; no frame rate is among its fields.
GenerateRequest == [fps |-> "None"]

\* The requests the hosted service receives from one generate_from_video
\* call: none when the call raises before the body, none when the upload
\* or the processing fails.
RequestsOf(client, nargs, out) ==
    IF CallGenerateFromVideo(client, nargs, out).raised THEN {}
    ELSE IF out.kind \in {"response", "gen_error"} THEN {GenerateRequest}
    ELSE {}

\* summarize_from_video as one call: the loop over the gemini models
RECURSIVE VideoLoop(_, _, _, _)
VideoLoop(gm, i, client, outs) ==
    IF i > Len(gm) THEN EmptyResult
    ELSE LET s == VideoLoopBody(gm[i], client, outs[i]) IN
         IF s.ctl = "return"
         THEN [summary |-> s.value, model |-> gm[i].name, duration |-> s.duration]
         ELSE VideoLoop(gm, i + 1, client, outs)
SummarizeFromVideoCall(ms, client, exists, outs) ==
    IF ~exists THEN EmptyResult
    ELSE IF GeminiModels(ms) = <<>> THEN EmptyResult
    ELSE VideoLoop(GeminiModels(ms), 1, client, outs)

\* the generate requests made during that call
RECURSIVE VideoRequests(_, _, _, _)
VideoRequests(gm, i, client, outs) ==
    IF i > Len(gm) THEN {}
    ELSE RequestsOf(client, GenerateFromVideoArgs, outs[i]) \cup
         (IF VideoLoopBody(gm[i], client, outs[i]).ctl = "return" THEN {}
          ELSE VideoRequests(gm, i + 1, client, outs))
SummarizeFromVideoRequests(ms, client, exists, outs) ==
    IF ~exists THEN {}
    ELSE VideoRequests(GeminiModels(ms), 1, client, outs)

\* The model lists and remote behaviours a processor attempt is run with
ProcConfigs == {cfg \in Configs : Len(cfg) = 1}
ProcVideoOutcomes ==
    {o \in GeminiVideoOutcomes :
        \/ o.kind = "failed"
        \/ o.kind = "response" /\ o.text = <<"x">> /\ o.duration = "d1"}

\* save_results writes the detailed report, the short-form file and the
\* JSON record in this order and returns their three paths
RegularArtifacts == <<"detailed", "youtube", "json">>
SaveResultsReturns == Len(RegularArtifacts)
\* txt_file, json_file = save_results(...)
SaveResultsTargets == 2
\* tuple unpacking raises ValueError unless the counts agree
UnpackRaises(nvalues, ntargets) == nvalues # ntargets

\* strategy = self.optimizer.get_strategy(video_path); None returns False
PGetStrategy ==
    /\ ppc = "start"
    /\ strategy' = GetStrategy(info_duration)
    /\ IF strategy' = NoStrategy
       THEN /\ plog' = "too_long"
            /\ presult' = "False"
            /\ ppc' = "done"
       ELSE /\ ppc' = "transform"
            /\ UNCHANGED <<plog, presult>>
    /\ UNCHANGED <<info_duration, processed_path, is_temp, temp_exists,
                   ptransform, pbackend, punlinked, full_response, partifacts>>
    /\ UNCHANGED <<ovars, gvars, bvars, wvars, tvars, svars, yvars, kvars, lvars>>

\* the transform: extract_audio, speed_up_video or neither
PTransform ==
    /\ ppc = "transform"
    /\ \E enc \in EncoderOutcomes :
          LET r == IF strategy.audio_only THEN ExtractAudio(strategy.speedup, enc)
                   ELSE IF strategy.speedup # 1 THEN SpeedUpVideo(strategy.speedup, enc)
                   ELSE [path |-> "source", temp_exists |-> FALSE, raised |-> FALSE]
          IN
          /\ ptransform' = IF strategy.audio_only
                           THEN [fn |-> "extract_audio", speedup |-> strategy.speedup]
                           ELSE IF strategy.speedup # 1
                           THEN [fn |-> "speed_up_video", speedup |-> strategy.speedup]
                           ELSE ptransform
          /\ temp_exists' = r.temp_exists
          /\ IF r.raised
             THEN /\ plog' = "exception"
                  /\ presult' = "False"
                  /\ ppc' = "done"
                  /\ UNCHANGED <<processed_path, is_temp>>
             ELSE /\ processed_path' = r.path
                  /\ is_temp' = IsTemp(r.path, "source")
                  /\ ppc' = "summarize"
                  /\ UNCHANGED <<plog, presult>>
    /\ UNCHANGED <<info_duration, strategy, pbackend, punlinked, full_response,
                   partifacts>>
    /\ UNCHANGED <<ovars, gvars, bvars, wvars, tvars, svars, yvars, kvars, lvars>>

\* self.model_manager.summarize_from_video(processed_path, fps=strategy['fps'])
PSummarize ==
    /\ ppc = "summarize"
    /\ \E cfg \in ProcConfigs, client \in BOOLEAN, out \in ProcVideoOutcomes :
          LET exists == processed_path = "source" \/ temp_exists
              outs == [i \in 1..MaxModels |-> out]
          IN
          /\ full_response' =
                SummarizeFromVideoCall(EnabledModels(cfg), client, exists, outs).summary
          /\ pbackend' =
                [called |-> TRUE, path |-> processed_path, fps |-> strategy.fps,
                 usable |-> client /\ exists /\ GeminiModels(EnabledModels(cfg)) # <<>>,
                 remote |-> out.kind,
                 requests |-> SummarizeFromVideoRequests(EnabledModels(cfg), client,
                                                         exists, outs)]
    /\ ppc' = "finish"
    /\ UNCHANGED <<info_duration, strategy, processed_path, is_temp, temp_exists,
                   ptransform, punlinked, partifacts, presult, plog>>
    /\ UNCHANGED <<ovars, gvars, bvars, wvars, tvars, svars, yvars, kvars, lvars>>

\* the temporary file is unlinked, an empty response returns False, else
\* the response is split, validated and saved with save_results, whose
\* three paths are unpacked into two names
PFinish ==
    /\ ppc = "finish"
    /\ \E unlink_ok \in BOOLEAN, save_ok \in BOOLEAN :
          /\ temp_exists' = IF is_temp /\ unlink_ok /\ processed_path = "temp"
                             THEN FALSE ELSE temp_exists
          /\ punlinked' = IF is_temp /\ unlink_ok THEN processed_path ELSE punlinked
          /\ IF ~Truthy(full_response)
             THEN /\ plog' = "analysis_failed"
                  /\ presult' = "False"
                  /\ UNCHANGED partifacts
             ELSE IF save_ok
             THEN /\ partifacts' = TRUE
                  /\ IF UnpackRaises(SaveResultsReturns, SaveResultsTargets)
                     THEN /\ plog' = "exception"
                          /\ presult' = "False"
                     ELSE /\ presult' = "True"
                          /\ UNCHANGED plog
             ELSE /\ plog' = "exception"
                  /\ presult' = "False"
                  /\ UNCHANGED partifacts
    /\ ppc' = "done"
    /\ UNCHANGED <<info_duration, strategy, processed_path, is_temp,
                   ptransform, pbackend, full_response>>
    /\ UNCHANGED <<ovars, gvars, bvars, wvars, tvars, svars, yvars, kvars, lvars>>

InitProc ==
    /\ info_duration \in DurationsSec
    /\ ppc = "start"
    /\ strategy = NoStrategy
    /\ processed_path = "source"
    /\ is_temp = FALSE
    /\ temp_exists = FALSE
    /\ ptransform = [fn |-> "none", speedup |-> 0]
    /\ pbackend = [called |-> FALSE, path |-> "source", fps |-> "None",
                   usable |-> FALSE, remote |-> "none", requests |-> {}]
    /\ punlinked = "none"
    /\ full_response = None
    /\ partifacts = FALSE
    /\ presult = "none"
    /\ plog = "none"

NextProc ==
    \/ PGetStrategy
    \/ PTransform
    \/ PSummarize
    \/ PFinish

----------------------------------------------------------------------------
(* VideoProcessor._process_whisper (src/core/processor.py): transcribe,    *)
(* summarize_from_text, then either the transcript-only file or the three  *)
(* regular artifacts of save_results.                                      *)

\* summarize_from_text as one call: the loop over the enabled models
RECURSIVE TextLoop(_, _, _, _)
TextLoop(ms, i, client, outs) ==
    IF i > Len(ms) THEN [summary |-> None, model |-> NoneName]
    ELSE LET s == TextLoopBody(ms[i], client, outs[i]) IN
         IF s.ctl = "return" THEN [summary |-> s.value, model |-> ms[i].name]
         ELSE TextLoop(ms, i + 1, client, outs)
SummarizeFromTextCall(ms, client, outs) == TextLoop(ms, 1, client, outs)

\* The model lists a text-mode attempt is run with, and what each backend
\* of a list does when called
TextConfigs == {cfg \in Configs : Len(cfg) <= 2}
TextOutcomes == GeminiTextOutcomes \cup OllamaOutcomes \cup {NoOutcome}
OutsFor(ms) ==
    {outs \in [1..Len(ms) -> TextOutcomes] :
        \A i \in 1..Len(ms) : outs[i] \in OutcomesFor(ms[i].type)}

\* transcript, segments = self.transcriber.transcribe(video_path)
TTranscribe ==
    /\ tpc = "start"
    /\ \E raised \in BOOLEAN, text \in Texts :
          IF raised
          THEN /\ tlog' = "exception"
               /\ tresult' = "False"
               /\ tpc' = "done"
               /\ UNCHANGED transcript
          ELSE /\ transcript' = text
               /\ IF text = <<>>
                  THEN /\ tlog' = "transcribe_failed"
                       /\ tresult' = "False"
                       /\ tpc' = "done"
                  ELSE /\ tpc' = "summarize"
                       /\ UNCHANGED <<tlog, tresult>>
    /\ UNCHANGED <<tmodels, tsummary, tbackends, twritten, transcript_file>>
    /\ UNCHANGED <<ovars, gvars, bvars, pvars, wvars, svars, yvars, kvars, lvars>>

\* summary, model_name = self.model_manager.summarize_from_text(...)
TSummarize ==
    /\ tpc = "summarize"
    /\ \E cfg \in TextConfigs, client \in BOOLEAN :
       \E outs \in OutsFor(EnabledModels(cfg)) :
          LET ms == EnabledModels(cfg) IN
          /\ tmodels' = ms
          /\ tsummary' = SummarizeFromTextCall(ms, client, outs)
          /\ tbackends' =
                [called |-> TRUE,
                 all_failed |-> \A i \in 1..Len(ms) :
                     LET b == TextLoopBody(ms[i], client, outs[i])
                     IN  b.raised \/ ~Truthy(b.value)]
    /\ tpc' = "branch"
    /\ UNCHANGED <<transcript, twritten, transcript_file, tresult, tlog>>
    /\ UNCHANGED <<ovars, gvars, bvars, pvars, wvars, svars, yvars, kvars, lvars>>

\* the failure branch without its write
TReturnFalseOnly ==
    /\ tpc = "branch"
    /\ ~Truthy(tsummary.summary)
    /\ tlog' = "all_models_failed"
    /\ tresult' = "False"
    /\ tpc' = "done"
    /\ UNCHANGED <<transcript, tmodels, tsummary, tbackends, twritten, transcript_file>>
    /\ UNCHANGED <<ovars, gvars, bvars, pvars, wvars, svars, yvars, kvars, lvars>>

\* if not summary: the transcript alone is written to
\* transcript_only_<stem>.txt and the attempt returns False
TTranscriptOnly ==
    /\ tpc = "branch"
    /\ ~Truthy(tsummary.summary)
    /\ tlog' = "all_models_failed"
    /\ twritten' = Append(twritten, "transcript_only")
    /\ transcript_file' = transcript
    /\ tresult' = "False"
    /\ tpc' = "done"
    /\ UNCHANGED <<transcript, tmodels, tsummary, tbackends>>
    /\ UNCHANGED <<ovars, gvars, bvars, pvars, wvars, svars, yvars, kvars, lvars>>

\* else timeline, short form and save_results; save_results may fail after
\* any number of its files, and its three paths are unpacked into two names
TSaveResults ==
    /\ tpc = "branch"
    /\ Truthy(tsummary.summary)
    /\ \E k \in 0..Len(RegularArtifacts) :
          /\ twritten' = twritten \o SubSeq(RegularArtifacts, 1, k)
          /\ IF k < Len(RegularArtifacts)
                \/ UnpackRaises(SaveResultsReturns, SaveResultsTargets)
             THEN /\ tlog' = "exception"
                  /\ tresult' = "False"
             ELSE /\ tresult' = "True"
                  /\ UNCHANGED tlog
    /\ tpc' = "done"
    /\ UNCHANGED <<transcript, tmodels, tsummary, tbackends, transcript_file>>
    /\ UNCHANGED <<ovars, gvars, bvars, pvars, wvars, svars, yvars, kvars, lvars>>

InitText ==
    /\ tpc = "start"
    /\ transcript = <<>>
    /\ tmodels = <<>>
    /\ tsummary = [summary |-> None, model |-> NoneName]
    /\ tbackends = [called |-> FALSE, all_failed |-> FALSE]
    /\ twritten = <<>>
    /\ transcript_file = None
    /\ tresult = "none"
    /\ tlog = "none"

NextText ==
    \/ TTranscribe
    \/ TSummarize
    \/ TTranscriptOnly
    \/ TSaveResults

----------------------------------------------------------------------------
(* Summarizer.parse_dual_summary (src/core/summarizer.py). A text is a     *)
(* sequence of symbols: "===" is the run of three equal signs, "D" the     *)
(* word of the detailed marker, "Y" the word of the short-form marker.     *)

MaxPieces == 5

\* detail_marker = "=== 詳細版 ===", youtube_marker = "=== YouTube版 ==="
DetailMarker == <<"===", " ", "D", " ", "===">>
YoutubeMarker == <<"===", " ", "Y", " ", "===">>

\* The texts given: up to MaxPieces pieces, each a marker or one symbol
Pieces == {DetailMarker, YoutubeMarker, <<"x">>, <<" ">>, <<"===">>, <<"Y">>}
RECURSIVE Flatten(_)
Flatten(ps) == IF ps = <<>> THEN <<>> ELSE Head(ps) \o Flatten(Tail(ps))
SplitInputs == {Flatten(ps) : ps \in SeqsUpTo(Pieces, MaxPieces)}

\* The 0-based positions where m occurs in t
Occurrences(m, t) ==
    {i \in 0..(Len(t) - Len(m)) : SubSeq(t, i + 1, i + Len(m)) = m}
\* m in t
Contains(m, t) == Occurrences(m, t) # {}
\* t.find(m): the first position, -1 when there is none
Find(m, t) ==
    IF Occurrences(m, t) = {} THEN -1
    ELSE CHOOSE i \in Occurrences(m, t) : \A j \in Occurrences(m, t) : i <= j
\* t.startswith(m)
StartsWith(m, t) == Len(t) >= Len(m) /\ SubSeq(t, 1, Len(m)) = m
\* t[a:b] for 0 <= a and 0 <= b <= len(t): empty when a >= b
Slice(t, a, b) == IF a >= b THEN <<>> ELSE SubSeq(t, a + 1, b)

NoSplit == [detailed |-> <<>>, youtube |-> <<>>, split |-> FALSE]

\* the split without the two strip() calls
ParseDualSummaryNoStrip(t) ==
    IF Contains(DetailMarker, t) /\ Contains(YoutubeMarker, t)
    THEN LET detail_start == Find(DetailMarker, t)
             youtube_start == Find(YoutubeMarker, t)
         IN  IF detail_start >= 0 /\ youtube_start > detail_start
             THEN [detailed |-> Slice(t, detail_start + Len(DetailMarker), youtube_start),
                   youtube |-> Slice(t, youtube_start + Len(YoutubeMarker), Len(t)),
                   split |-> TRUE]
             ELSE NoSplit
    ELSE NoSplit
\* split records which return statement was taken
ParseDualSummary(t) ==
    IF Contains(DetailMarker, t) /\ Contains(YoutubeMarker, t)
    THEN LET detail_start == Find(DetailMarker, t)
             youtube_start == Find(YoutubeMarker, t)
         IN  IF detail_start >= 0 /\ youtube_start > detail_start
             THEN [detailed |-> Strip(Slice(t, detail_start + Len(DetailMarker),
                                            youtube_start)),
                   youtube |-> Strip(Slice(t, youtube_start + Len(YoutubeMarker),
                                           Len(t))),
                   split |-> TRUE]
             ELSE NoSplit
    ELSE NoSplit

ParseDual ==
    /\ spc = "given"
    /\ sout' = ParseDualSummary(stext)
    /\ spc' = "split"
    /\ UNCHANGED stext
    /\ UNCHANGED <<ovars, gvars, bvars, pvars, wvars, tvars, yvars, kvars, lvars>>

InitSplit ==
    /\ stext \in SplitInputs
    /\ spc = "given"
    /\ sout = NoSplit

NextSplit ==
    \/ ParseDual

----------------------------------------------------------------------------
(* generate_youtube_simple (src/utils/format.py) and                       *)
(* Summarizer.validate_youtube_format (src/core/summarizer.py). A text is  *)
(* a sequence of characters; "nl" is the newline, "period" the full stop   *)
(* '。', "gai" "you" the two characters of 概要, "memo" the sign 📝,        *)
(* "bullet" the sign '•', and each fixed phrase of the template that is    *)
(* never looked into is one symbol.                                        *)

MaxParts == 4

\* len(topics) < 5 and topics[:5]
MaxTopics == 5
\* len(topic) > 3
MinTopicLen == 3
\* overview.strip()[:150] and len(overview) > 150
OverviewLimit == 150

Bold == <<"*", "*">>
OverviewWord == <<"gai", "you">>

\* The detailed texts given: 1..MaxParts parts, each a character, a word
\* of four characters or a run of OverviewLimit characters
LongRun == [i \in 1..OverviewLimit |-> "x"]
Parts ==
    {<<"x">>, <<"x", "x", "x", "x">>, LongRun, <<" ">>, <<"nl">>, Bold,
     <<"period">>, OverviewWord, <<"#">>}
DetailedTexts == {Flatten(ps) : ps \in SeqsUpTo(Parts, MaxParts)} \ {<<>>}

\* str.strip() where the text may hold newlines
IsSpace(c) == c \in {" ", "nl"}
RECURSIVE LStripWs(_)
LStripWs(t) == IF t # <<>> /\ IsSpace(Head(t)) THEN LStripWs(Tail(t)) ELSE t
RECURSIVE RStripWs(_)
RStripWs(t) ==
    IF t # <<>> /\ IsSpace(t[Len(t)]) THEN RStripWs(SubSeq(t, 1, Len(t) - 1)) ELSE t
StripWs(t) == RStripWs(LStripWs(t))

\* t.split(sep) for a one-character sep: the pieces between the separators
RECURSIVE SplitOn(_, _)
SplitOn(sep, t) ==
    IF \A i \in 1..Len(t) : t[i] # sep THEN <<t>>
    ELSE LET k == CHOOSE i \in 1..Len(t) :
                     t[i] = sep /\ \A j \in 1..(i - 1) : t[j] # sep
         IN  <<SubSeq(t, 1, k - 1)>> \o SplitOn(sep, SubSeq(t, k + 1, Len(t)))

\* sep.join(pieces)
RECURSIVE Join(_, _)
Join(sep, ps) ==
    IF ps = <<>> THEN <<>>
    ELSE IF Len(ps) = 1 THEN ps[1]
    ELSE ps[1] \o sep \o Join(sep, Tail(ps))

\* re.search(r'\*\*([^*]+)\*\*', line): the starts i (1-based) of a match,
\* two stars, at least one character that is no star, two stars
NextStar(line, i) ==
    CHOOSE j \in (i + 2)..Len(line) :
        line[j] = "*" /\ \A k \in (i + 2)..(j - 1) : line[k] # "*"
BoldStarts(line) ==
    {i \in 1..(Len(line) - 4) :
        /\ line[i] = "*" /\ line[i + 1] = "*" /\ line[i + 2] # "*"
        /\ \E j \in (i + 3)..(Len(line) - 1) :
              /\ line[j] = "*" /\ line[j + 1] = "*"
              /\ \A k \in (i + 2)..(j - 1) : line[k] # "*"}
HasBold(line) == BoldStarts(line) # {}
\* match.group(1) of the leftmost match
FirstBold(line) ==
    LET i == CHOOSE a \in BoldStarts(line) : \A b \in BoldStarts(line) : a <= b
    IN  SubSeq(line, i + 2, NextStar(line, i) - 1)

\* the topics loop: one search per line, at most MaxTopics matches taken,
\* a stripped topic kept when it is longer than MinTopicLen
RECURSIVE TopicsFrom(_, _, _)
TopicsFrom(lines, i, topics) ==
    IF i > Len(lines) THEN topics
    ELSE IF HasBold(lines[i]) /\ Len(topics) < MaxTopics
    THEN LET topic == StripWs(FirstBold(lines[i]))
         IN  TopicsFrom(lines, i + 1,
                        IF Len(topic) > MinTopicLen THEN Append(topics, topic)
                        ELSE topics)
    ELSE TopicsFrom(lines, i + 1, topics)
Topics(summary) == TopicsFrom(SplitOn("nl", summary), 1, <<>>)

\* the overview loop: capture starts after a line holding the overview
\* word and ends at a line that starts with '#'
RECURSIVE OverviewFrom(_, _, _, _)
OverviewFrom(lines, i, capture, overview) ==
    IF i > Len(lines) THEN overview
    ELSE IF Contains(OverviewWord, lines[i])
    THEN OverviewFrom(lines, i + 1, TRUE, overview)
    ELSE IF capture
    THEN IF lines[i] # <<>> /\ Head(lines[i]) = "#" THEN overview
         ELSE IF StripWs(lines[i]) # <<>>
         THEN OverviewFrom(lines, i + 1, capture,
                           overview \o StripWs(lines[i]) \o <<" ">>)
         ELSE OverviewFrom(lines, i + 1, capture, overview)
    ELSE OverviewFrom(lines, i + 1, capture, overview)
\* if not overview: the first two sentences
Overview(summary) ==
    LET captured == OverviewFrom(SplitOn("nl", summary), 1, FALSE, <<>>)
        sentences == SplitOn("period", summary)
    IN  IF captured # <<>> THEN captured
        ELSE Join(<<"period">>, SubSeq(sentences, 1, IF Len(sentences) < 2
                                                  THEN Len(sentences) ELSE 2))
             \o <<"period">>

\* the bullet lines, or the default bullet
RECURSIVE BulletLines(_)
BulletLines(topics) ==
    IF topics = <<>> THEN <<>>
    ELSE <<<<"bullet", " ">> \o Head(topics)>> \o BulletLines(Tail(topics))
TopicsTextNoDefault(topics) ==
    Join(<<"nl">>, BulletLines(SubSeq(topics, 1, IF Len(topics) < MaxTopics
                                                 THEN Len(topics) ELSE MaxTopics)))
TopicsText(topics) ==
    IF topics # <<>>
    THEN Join(<<"nl">>, BulletLines(SubSeq(topics, 1, IF Len(topics) < MaxTopics
                                                      THEN Len(topics) ELSE MaxTopics)))
    ELSE <<"bullet", " ", "default">>

\* t[:n]
Take(t, n) == IF Len(t) <= n THEN t ELSE SubSeq(t, 1, n)

\* the fixed template
GenerateYoutubeSimple(summary) ==
    LET overview == Overview(summary) IN
    <<"memo", "title", "nl", "nl">>
    \o Take(StripWs(overview), OverviewLimit)
    \o (IF Len(overview) > OverviewLimit THEN <<"...">> ELSE <<>>)
    \o <<"nl", "nl", "label", "nl">>
    \o TopicsText(Topics(summary))
    \o <<"nl", "nl", "closing", "nl", "nl", "disclaimer">>

\* validate_youtube_format: the four required markers and the first one
\* at the start of the stripped text
Required == {<<"memo">>, <<"label">>, <<"bullet">>, <<"disclaimer">>}
ValidateYoutubeFormat(text) ==
    /\ \A marker \in Required : Contains(marker, text)
    /\ StartsWith(<<"memo">>, StripWs(text))

DeriveShort ==
    /\ ypc = "given"
    /\ youtube' = GenerateYoutubeSimple(ysummary)
    /\ ypc' = "derived"
    /\ UNCHANGED <<ysummary, yvalid>>
    /\ UNCHANGED <<ovars, gvars, bvars, pvars, wvars, tvars, svars, kvars, lvars>>

ValidateShort ==
    /\ ypc = "derived"
    /\ yvalid' = ValidateYoutubeFormat(youtube)
    /\ ypc' = "validated"
    /\ UNCHANGED <<ysummary, youtube>>
    /\ UNCHANGED <<ovars, gvars, bvars, pvars, wvars, tvars, svars, kvars, lvars>>

InitShort ==
    /\ ysummary \in DetailedTexts
    /\ ypc = "given"
    /\ youtube = <<>>
    /\ yvalid = FALSE

NextShort ==
    \/ DeriveShort
    \/ ValidateShort

----------------------------------------------------------------------------
(* The finalization of a direct-mode response in _process_video_direct     *)
(* (src/core/processor.py): parse_dual_summary, the fallback to the whole  *)
(* response, and the validation of the short form.                         *)

MaxResponsePieces == 4

\* A short form as a backend may write it
WellFormedShort == <<"memo", " ", "label", " ", "bullet", " ", "disclaimer">>

\* The non-empty responses: 1..MaxResponsePieces pieces
ResponsePieces ==
    {DetailMarker, YoutubeMarker, WellFormedShort, <<"x">>, <<" ">>,
     <<"memo">>, Bold}
Responses ==
    {Flatten(ps) : ps \in SeqsUpTo(ResponsePieces, MaxResponsePieces)} \ {<<>>}

\* if not detailed_version or not youtube_version: the whole response is
\* the detailed text and the short form is generated from it
FChoose ==
    /\ spc = "split"
    /\ ypc = "off"
    /\ IF sout.detailed = <<>> \/ sout.youtube = <<>>
       THEN /\ ysummary' = stext
            /\ youtube' = GenerateYoutubeSimple(stext)
       ELSE /\ ysummary' = sout.detailed
            /\ youtube' = sout.youtube
    /\ ypc' = "chosen"
    /\ UNCHANGED yvalid
    /\ UNCHANGED <<ovars, gvars, bvars, pvars, wvars, tvars, svars, kvars, lvars>>

\* the validation without the replacement
FKeepShortForm ==
    /\ ypc = "chosen"
    /\ yvalid' = ValidateYoutubeFormat(youtube)
    /\ ypc' = "final"
    /\ UNCHANGED <<ysummary, youtube>>
    /\ UNCHANGED <<ovars, gvars, bvars, pvars, wvars, tvars, svars, kvars, lvars>>

\* if not validate_youtube_format(youtube_version): the short form is
\* generated from the detailed text
FValidate ==
    /\ ypc = "chosen"
    /\ yvalid' = ValidateYoutubeFormat(youtube)
    /\ youtube' = IF ValidateYoutubeFormat(youtube) THEN youtube
                  ELSE GenerateYoutubeSimple(ysummary)
    /\ ypc' = "final"
    /\ UNCHANGED ysummary
    /\ UNCHANGED <<ovars, gvars, bvars, pvars, wvars, tvars, svars, kvars, lvars>>

InitFinal ==
    /\ stext \in Responses
    /\ spc = "given"
    /\ sout = NoSplit

NextFinal ==
    \/ ParseDual
    \/ FChoose
    \/ FValidate

----------------------------------------------------------------------------
(* create_timeline (src/utils/format.py): every step-th segment becomes a  *)
(* time point. A segment is its start in whole seconds and its text.       *)

MaxSegments == 6
MaxPoints == 3

\* seconds between the starts the segments are drawn from
SegmentSpacing == 1830
SecondsPerHour == 3600

StartTimes == {i * SegmentSpacing : i \in 0..(MaxSegments - 1)}
SegmentTexts == {<<"x">>, <<" ", "x", " ">>}

\* The segments with the starts of S and the text tx, in order of time
RECURSIVE SegmentsOf(_, _)
SegmentsOf(S, tx) ==
    IF S = {} THEN <<>>
    ELSE LET first == CHOOSE a \in S : \A b \in S : a <= b
         IN  <<[start |-> first, text |-> tx]>> \o SegmentsOf(S \ {first}, tx)
SegmentLists == {SegmentsOf(S, tx) : S \in SUBSET StartTimes, tx \in SegmentTexts}

Max(a, b) == IF a >= b THEN a ELSE b

\* f"{h:02d}:{m:02d}:{s:02d}" if h > 0 else f"{m:02d}:{s:02d}"
TimeStr(seconds) ==
    LET h == seconds \div SecondsPerHour
        m == (seconds % SecondsPerHour) \div SecondsPerMinute
        sec == seconds % SecondsPerMinute
    IN  IF h > 0 THEN <<h, m, sec>> ELSE <<m, sec>>

TimePoint(seg) ==
    [time |-> TimeStr(seg.start), seconds |-> seg.start, text |-> Strip(seg.text)]

\* step = max(1, total // num_points); for i in range(0, total, step)
Step(total, points) == Max(1, total \div points)
CreateTimeline(segs, points) ==
    IF segs = <<>> THEN <<>>
    ELSE LET total == Len(segs)
             step == Step(total, points)
             count == (total + step - 1) \div step
         IN  [k \in 1..count |-> TimePoint(segs[(k - 1) * step + 1])]

CreateTimelineCall ==
    /\ kpc = "given"
    /\ timeline' = CreateTimeline(segments, num_points)
    /\ kpc' = "made"
    /\ UNCHANGED <<segments, num_points>>
    /\ UNCHANGED <<ovars, gvars, bvars, pvars, wvars, tvars, svars, yvars, lvars>>

InitTimeline ==
    /\ segments \in SegmentLists
    /\ num_points \in 1..MaxPoints
    /\ kpc = "given"
    /\ timeline = <<>>

NextTimeline ==
    \/ CreateTimelineCall

----------------------------------------------------------------------------
(* ModelManager._call_ollama (src/models/manager.py) line by line: the     *)
(* POST, then the lines of the streamed response as they arrive.           *)

MaxLines == 3

\* data.get('response', ''): the partial token of a line
TokenTexts == {<<>>, <<"x">>, <<" ">>}

\* return summary.strip() if summary else None
OllamaReturn(summary) == IF summary # <<>> THEN Strip(summary) ELSE None

\* requests.post(api_url, json=payload, stream=True, timeout=30)
LPost ==
    /\ lpc = "call"
    /\ \E outcome \in {"ok", "timeout", "error"} :
          IF outcome = "ok"
          THEN /\ lpc' = "stream"
               /\ UNCHANGED <<lend, lret>>
          ELSE /\ lpc' = "returned"
               /\ lend' = outcome
               /\ lret' = None
    /\ UNCHANGED <<lsummary, ltokens, llines>>
    /\ UNCHANGED <<ovars, gvars, bvars, pvars, wvars, tvars, svars, yvars, kvars>>

\* one line of iter_lines within the activity window: a blank line or one
\* that is no JSON is passed over, else its token is appended and a true
\* done leaves the loop
LLine ==
    /\ lpc = "stream"
    /\ llines < MaxLines
    /\ llines' = llines + 1
    /\ \E passed_over \in BOOLEAN, token \in TokenTexts, done \in BOOLEAN :
          IF passed_over
          THEN UNCHANGED <<lpc, lsummary, ltokens, lend, lret>>
          ELSE /\ lsummary' = lsummary \o token
               /\ ltokens' = Append(ltokens, token)
               /\ IF done
                  THEN /\ lpc' = "returned"
                       /\ lend' = "done"
                       /\ lret' = OllamaReturn(lsummary \o token)
                  ELSE UNCHANGED <<lpc, lend, lret>>
    /\ UNCHANGED <<ovars, gvars, bvars, pvars, wvars, tvars, svars, yvars, kvars>>

\* a line that arrives more than 120 s after the last non-blank one, or an
\* exception of the transport while iterating: None
LAbort ==
    /\ lpc = "stream"
    /\ \E kind \in {"stall", "error"} : lend' = kind
    /\ lret' = None
    /\ lpc' = "returned"
    /\ UNCHANGED <<lsummary, ltokens, llines>>
    /\ UNCHANGED <<ovars, gvars, bvars, pvars, wvars, tvars, svars, yvars, kvars>>

\* iter_lines is exhausted: the server closed the stream without a line
\* carrying done
LExhausted ==
    /\ lpc = "stream"
    /\ lend' = "eof"
    /\ lret' = OllamaReturn(lsummary)
    /\ lpc' = "returned"
    /\ UNCHANGED <<lsummary, ltokens, llines>>
    /\ UNCHANGED <<ovars, gvars, bvars, pvars, wvars, tvars, svars, yvars, kvars>>

InitStream ==
    /\ lpc = "call"
    /\ lsummary = <<>>
    /\ ltokens = <<>>
    /\ llines = 0
    /\ lend = "none"
    /\ lret = None

NextStream ==
    \/ LPost
    \/ LLine
    \/ LAbort
    \/ LExhausted

----------------------------------------------------------------------------
(* The watcher VideoHandler (src/scripts/watch.py): the observer's event   *)
(* thread and the retry-timer threads share processing and pending_files   *)
(* without a lock; each batch is a main.py subprocess working on the       *)
(* ledger file.                                                            *)

MaxWatchFiles == 2
MaxRetryThreads == 1

WatchDir == SubSeq(Paths, 1, MaxWatchFiles)
WatchFiles == Range(WatchDir)
RetryNames == <<"r1", "r2", "r3">>
RetryThreads == {RetryNames[i] : i \in 1..MaxRetryThreads}
Threads == {"ev"} \cup RetryThreads

\* where a thread is when it is not inside process_videos
Rest(t) == IF t = "ev" THEN "idle" ELSE "free"
\* the body of process_videos after the flag is set
InBatch(t) == wpc[t] \in {"pv_scan", "pv_run", "pv_batch", "pv_hung"}

Exists(p) == wfiles[p] \in {"growing", "stable"}
\* is_file_complete: the file exists, its size did not change over the
\* sampling window and is not zero
IsFileComplete(p) == wfiles[p] = "stable"

\* a video file appears in the folder, still being written or moved in whole
FileCreated ==
    \E p \in WatchFiles, st \in {"growing", "stable"} :
       /\ wfiles[p] = "absent"
       /\ wfiles' = [wfiles EXCEPT ![p] = st]
       /\ wevents' = wevents \cup {p}
       /\ UNCHANGED <<pending_files, processing, wcool, wpc, wlog, wtodo,
                      wchecked, wrecorded,
                      wlaunch_unchecked, wfired>>
       /\ UNCHANGED <<ovars, gvars, bvars, pvars, tvars, svars, yvars, kvars, lvars>>

\* the writer of a file finishes
FileStable ==
    \E p \in WatchFiles :
       /\ wfiles[p] = "growing"
       /\ wfiles' = [wfiles EXCEPT ![p] = "stable"]
       /\ UNCHANGED <<wevents, pending_files, processing, wcool, wpc, wlog,
                      wtodo, wchecked, wrecorded,
                      wlaunch_unchecked, wfired>>
       /\ UNCHANGED <<ovars, gvars, bvars, pvars, tvars, svars, yvars, kvars, lvars>>

\* a file is removed from the folder
FileDeleted ==
    \E p \in WatchFiles :
       /\ Exists(p)
       /\ wfiles' = [wfiles EXCEPT ![p] = "gone"]
       /\ UNCHANGED <<wevents, pending_files, processing, wcool, wpc, wlog,
                      wtodo, wchecked, wrecorded,
                      wlaunch_unchecked, wfired>>
       /\ UNCHANGED <<ovars, gvars, bvars, pvars, tvars, svars, yvars, kvars, lvars>>

\* cooldown_seconds have passed since last_process_time
CooldownExpires ==
    /\ wcool
    /\ wcool' = FALSE
    /\ UNCHANGED <<wfiles, wevents, pending_files, processing, wpc, wlog,
                   wtodo, wchecked, wrecorded,
                      wlaunch_unchecked, wfired>>
    /\ UNCHANGED <<ovars, gvars, bvars, pvars, tvars, svars, yvars, kvars, lvars>>

\* on_created / on_moved on the event thread, then schedule_processing
OnCreated ==
    \E p \in wevents :
       /\ wpc["ev"] = "idle"
       /\ wevents' = wevents \ {p}
       /\ pending_files' = pending_files \cup {p}
       /\ wpc' = [wpc EXCEPT !["ev"] =
                     IF processing THEN "idle"
                     ELSE IF wcool THEN "idle"
                     ELSE "pv_check"]
       /\ UNCHANGED <<wfiles, processing, wcool, wlog, wtodo, wchecked,
                      wrecorded, wlaunch_unchecked, wfired>>
       /\ UNCHANGED <<ovars, gvars, bvars, pvars, tvars, svars, yvars, kvars, lvars>>

\* schedule_retry's thread wakes up:
\* if self.pending_files and not self.processing: self.process_videos()
RetryFire ==
    \E t \in RetryThreads :
       /\ wpc[t] = "sleeping"
       /\ LET start == pending_files # {} /\ ~processing IN
          /\ wpc' = [wpc EXCEPT ![t] = IF start THEN "pv_check" ELSE "free"]
          /\ wfired' = wfired \cup
                {[busy |-> \E u \in Threads : InBatch(u), started |-> start]}
       /\ UNCHANGED <<wfiles, wevents, pending_files, processing, wcool, wlog,
                      wtodo, wchecked, wrecorded,
                      wlaunch_unchecked>>
       /\ UNCHANGED <<ovars, gvars, bvars, pvars, tvars, svars, yvars, kvars, lvars>>

\* process_videos lines 108-112: the two early returns
PvCheck ==
    \E t \in Threads :
       /\ wpc[t] = "pv_check"
       /\ wpc' = [wpc EXCEPT ![t] =
                     IF processing THEN Rest(t)
                     ELSE IF pending_files = {} THEN Rest(t)
                     ELSE "pv_set"]
       /\ UNCHANGED <<wfiles, wevents, pending_files, processing, wcool, wlog,
                      wtodo, wchecked, wrecorded,
                      wlaunch_unchecked, wfired>>
       /\ UNCHANGED <<ovars, gvars, bvars, pvars, tvars, svars, yvars, kvars, lvars>>

\* lines 114-115: self.processing = True; self.last_process_time = now
PvSet ==
    \E t \in Threads :
       /\ wpc[t] = "pv_set"
       /\ processing' = TRUE
       /\ wcool' = TRUE
       /\ wpc' = [wpc EXCEPT ![t] = "pv_scan"]
       /\ UNCHANGED <<wfiles, wevents, pending_files, wlog, wtodo, wchecked,
                      wrecorded, wlaunch_unchecked, wfired>>
       /\ UNCHANGED <<ovars, gvars, bvars, pvars, tvars, svars, yvars, kvars, lvars>>

\* lines 117-141: the files of list(self.pending_files) are checked; the
\* missing ones leave the set; if one is incomplete the flag is released,
\* a retry thread is started and the attempt ends (with MaxRetryThreads
\* timers already sleeping the new timer is merged with one of them, which
\* makes the same test when it wakes up)
PvScan ==
    \E t \in Threads :
       /\ wpc[t] = "pv_scan"
       /\ LET missing == {p \in pending_files : ~Exists(p)}
              incomplete_files == {p \in pending_files \ missing : ~IsFileComplete(p)}
          IN
          /\ pending_files' = pending_files \ missing
          /\ wchecked' = [wchecked EXCEPT ![t] =
                             IF incomplete_files # {} THEN {}
                             ELSE pending_files \ missing]
          /\ IF incomplete_files # {}
             THEN /\ processing' = FALSE
                  /\ IF t \in RetryThreads
                     THEN wpc' = [wpc EXCEPT ![t] = "sleeping"]
                     ELSE IF \E r \in RetryThreads : wpc[r] = "free"
                     THEN \E r \in RetryThreads :
                             /\ wpc[r] = "free"
                             /\ wpc' = [wpc EXCEPT ![t] = Rest(t), ![r] = "sleeping"]
                     ELSE wpc' = [wpc EXCEPT ![t] = Rest(t)]
             ELSE /\ wpc' = [wpc EXCEPT ![t] = "pv_run"]
                  /\ UNCHANGED processing
       /\ UNCHANGED <<wfiles, wevents, wcool, wlog, wtodo, wrecorded,
                      wlaunch_unchecked, wfired>>
       /\ UNCHANGED <<ovars, gvars, bvars, pvars, tvars, svars, yvars, kvars, lvars>>

\* lines 143-149: subprocess.run([sys.executable, self.script_path]); the
\* child scans the folder, loads the ledger and filters
PvRun ==
    \E t \in Threads, spawn_ok \in BOOLEAN :
       /\ wpc[t] = "pv_run"
       /\ IF spawn_ok
          THEN LET log == LoadProcessedLog(ledger_file)
                   files == SelectSeq(WatchDir, Exists)
               IN  /\ wlog' = [wlog EXCEPT ![t] = log]
                   /\ wtodo' = [wtodo EXCEPT ![t] = Unprocessed(files, log)]
                   /\ wlaunch_unchecked' = wlaunch_unchecked \cup
                         (pending_files \ wchecked[t])
                   /\ wpc' = [wpc EXCEPT ![t] = "pv_batch"]
                   /\ UNCHANGED processing
          ELSE /\ processing' = FALSE
               /\ wpc' = [wpc EXCEPT ![t] = Rest(t)]
               /\ UNCHANGED <<wlog, wtodo, wlaunch_unchecked>>
       /\ UNCHANGED <<wfiles, wevents, pending_files, wcool, wchecked, wrecorded,
                      wfired>>
       /\ UNCHANGED <<ovars, gvars, bvars, pvars, tvars, svars, yvars, kvars, lvars>>

\* the child's loop: one asset is processed, recorded and the ledger saved
BatchStep ==
    \E t \in Threads, success \in BOOLEAN :
       /\ wpc[t] = "pv_batch"
       /\ wtodo[t] # <<>>
       /\ LET log == RecordAttempt(wlog[t], Head(wtodo[t]), now, success) IN
          /\ wlog' = [wlog EXCEPT ![t] = log]
          /\ ledger_file' = SaveProcessedLog(log)
       /\ wtodo' = [wtodo EXCEPT ![t] = Tail(wtodo[t])]
       /\ wrecorded' = wrecorded \cup {Head(wtodo[t])}
       /\ UNCHANGED <<wfiles, wevents, pending_files, processing, wcool, wpc,
                      wchecked, wlaunch_unchecked, wfired>>
       /\ UNCHANGED <<processed_log, video_files, skipped, skip_processed,
                      continue_on_error, bpc, bi, now, runs, attempted,
                      committed, loaded_log, committed_at_start, bexit>>
       /\ UNCHANGED <<ovars, gvars, pvars, tvars, svars, yvars, kvars, lvars>>

\* subprocess.run (lines 145-149) has no timeout: a child that polls the
\* hosted service for a video that stays PROCESSING (gemini.py lines
\* 123-125) never exits, and the attempt stays inside subprocess.run
BatchHang ==
    \E t \in Threads :
       /\ wpc[t] = "pv_batch"
       /\ wtodo[t] # <<>>
       /\ wpc' = [wpc EXCEPT ![t] = "pv_hung"]
       /\ UNCHANGED <<wfiles, wevents, pending_files, processing, wcool, wlog,
                      wtodo, wchecked, wrecorded, wlaunch_unchecked, wfired>>
       /\ UNCHANGED <<ovars, gvars, bvars, pvars, tvars, svars, yvars, kvars, lvars>>

\* lines 151-168: the child exits; return code 0 clears the pending set;
\* finally: self.processing = False
BatchExit ==
    \E t \in Threads, rc_zero \in BOOLEAN :
       /\ wpc[t] = "pv_batch"
       /\ wtodo[t] = <<>>
       /\ pending_files' = IF rc_zero THEN {} ELSE pending_files
       /\ processing' = FALSE
       /\ wlog' = [wlog EXCEPT ![t] = {}]
       /\ wchecked' = [wchecked EXCEPT ![t] = {}]
       /\ wpc' = [wpc EXCEPT ![t] = Rest(t)]
       /\ UNCHANGED <<wfiles, wevents, wcool, wtodo, wrecorded,
                      wlaunch_unchecked, wfired>>
       /\ UNCHANGED <<ovars, gvars, bvars, pvars, tvars, svars, yvars, kvars, lvars>>

InitWatch ==
    /\ wfiles = [p \in WatchFiles |-> "absent"]
    /\ wevents = {}
    /\ pending_files = {}
    /\ processing = FALSE
    /\ wcool = FALSE
    /\ wpc = [t \in Threads |-> Rest(t)]
    /\ wlog = [t \in Threads |-> {}]
    /\ wtodo = [t \in Threads |-> <<>>]
    /\ wrecorded = {}
    /\ wchecked = [t \in Threads |-> {}]
    /\ wlaunch_unchecked = {}
    /\ wfired = {}

NextWatch ==
    \/ FileCreated
    \/ FileStable
    \/ FileDeleted
    \/ CooldownExpires
    \/ OnCreated
    \/ RetryFire
    \/ PvCheck
    \/ PvSet
    \/ PvScan
    \/ PvRun
    \/ BatchStep
    \/ BatchHang
    \/ BatchExit

----------------------------------------------------------------------------
(* Specifications: one per component, the other components at rest.        *)

OrchAtRest ==
    /\ summarization_models = <<>>
    /\ models = <<>>
    /\ gemini_client = FALSE
    /\ video_exists = FALSE
    /\ omode = "none"
    /\ opc = "off"
    /\ oi = 1
    /\ gemini_models = <<>>
    /\ oret = EmptyResult
    /\ otrace = <<>>
    /\ oremote = <<>>

GeminiAtRest ==
    /\ gpc = "off"
    /\ gext = ".mp4"
    /\ gmime = "none"
    /\ guploaded = FALSE
    /\ gfile_state = "none"
    /\ gremote_exists = FALSE
    /\ gdelete_attempted = FALSE
    /\ gduration = NoneDuration
    /\ gpolls = 0
    /\ gret = NoneResult

LedgerAtRest == InitLedger

ProcAtRest ==
    /\ info_duration = 0
    /\ ppc = "off"
    /\ strategy = NoStrategy
    /\ processed_path = "source"
    /\ is_temp = FALSE
    /\ temp_exists = FALSE
    /\ ptransform = [fn |-> "none", speedup |-> 0]
    /\ pbackend = [called |-> FALSE, path |-> "source", fps |-> "None",
                   usable |-> FALSE, remote |-> "none", requests |-> {}]
    /\ punlinked = "none"
    /\ full_response = None
    /\ partifacts = FALSE
    /\ presult = "none"
    /\ plog = "none"

WatchAtRest == InitWatch

SplitAtRest ==
    /\ stext = <<>>
    /\ spc = "off"
    /\ sout = NoSplit

ShortAtRest ==
    /\ ysummary = <<>>
    /\ ypc = "off"
    /\ youtube = <<>>
    /\ yvalid = FALSE

TimelineAtRest ==
    /\ segments = <<>>
    /\ num_points = 1
    /\ kpc = "off"
    /\ timeline = <<>>

StreamAtRest ==
    /\ lpc = "off"
    /\ lsummary = <<>>
    /\ ltokens = <<>>
    /\ llines = 0
    /\ lend = "none"
    /\ lret = None

TextAtRest ==
    /\ tpc = "off"
    /\ transcript = <<>>
    /\ tmodels = <<>>
    /\ tsummary = [summary |-> None, model |-> NoneName]
    /\ tbackends = [called |-> FALSE, all_failed |-> FALSE]
    /\ twritten = <<>>
    /\ transcript_file = None
    /\ tresult = "none"
    /\ tlog = "none"

InitSpecOrch ==
    /\ InitOrch
    /\ GeminiAtRest
    /\ LedgerAtRest
    /\ ProcAtRest
    /\ WatchAtRest
    /\ TextAtRest
    /\ SplitAtRest
    /\ ShortAtRest
    /\ TimelineAtRest
    /\ StreamAtRest

InitSpecGemini ==
    /\ InitGemini
    /\ OrchAtRest
    /\ LedgerAtRest
    /\ ProcAtRest
    /\ WatchAtRest
    /\ TextAtRest
    /\ SplitAtRest
    /\ ShortAtRest
    /\ TimelineAtRest
    /\ StreamAtRest

InitSpecLedger ==
    /\ InitLedger
    /\ OrchAtRest
    /\ GeminiAtRest
    /\ ProcAtRest
    /\ WatchAtRest
    /\ TextAtRest
    /\ SplitAtRest
    /\ ShortAtRest
    /\ TimelineAtRest
    /\ StreamAtRest

InitSpecProc ==
    /\ InitProc
    /\ OrchAtRest
    /\ GeminiAtRest
    /\ LedgerAtRest
    /\ WatchAtRest
    /\ TextAtRest
    /\ SplitAtRest
    /\ ShortAtRest
    /\ TimelineAtRest
    /\ StreamAtRest

InitSpecWatch ==
    /\ InitWatch
    /\ OrchAtRest
    /\ GeminiAtRest
    /\ LedgerAtRest
    /\ ProcAtRest
    /\ TextAtRest
    /\ SplitAtRest
    /\ ShortAtRest
    /\ TimelineAtRest
    /\ StreamAtRest

InitSpecText ==
    /\ InitText
    /\ OrchAtRest
    /\ GeminiAtRest
    /\ LedgerAtRest
    /\ ProcAtRest
    /\ WatchAtRest
    /\ SplitAtRest
    /\ ShortAtRest
    /\ TimelineAtRest
    /\ StreamAtRest

InitSpecSplit ==
    /\ InitSplit
    /\ OrchAtRest
    /\ GeminiAtRest
    /\ LedgerAtRest
    /\ ProcAtRest
    /\ WatchAtRest
    /\ TextAtRest
    /\ ShortAtRest
    /\ TimelineAtRest
    /\ StreamAtRest

InitSpecShort ==
    /\ InitShort
    /\ OrchAtRest
    /\ GeminiAtRest
    /\ LedgerAtRest
    /\ ProcAtRest
    /\ WatchAtRest
    /\ TextAtRest
    /\ SplitAtRest
    /\ TimelineAtRest
    /\ StreamAtRest

InitSpecTimeline ==
    /\ InitTimeline
    /\ OrchAtRest
    /\ GeminiAtRest
    /\ LedgerAtRest
    /\ ProcAtRest
    /\ WatchAtRest
    /\ TextAtRest
    /\ SplitAtRest
    /\ ShortAtRest
    /\ StreamAtRest

InitSpecStream ==
    /\ InitStream
    /\ OrchAtRest
    /\ GeminiAtRest
    /\ LedgerAtRest
    /\ ProcAtRest
    /\ WatchAtRest
    /\ TextAtRest
    /\ SplitAtRest
    /\ ShortAtRest
    /\ TimelineAtRest

InitSpecFinal ==
    /\ InitFinal
    /\ OrchAtRest
    /\ GeminiAtRest
    /\ LedgerAtRest
    /\ ProcAtRest
    /\ WatchAtRest
    /\ TextAtRest
    /\ ShortAtRest
    /\ TimelineAtRest
    /\ StreamAtRest

SpecOrch == InitSpecOrch /\ [][NextOrch]_vars

SpecGemini == InitSpecGemini /\ [][NextGemini]_vars

\* generate_from_video runs on one thread that keeps taking its next step
FairSpecGemini ==
    /\ InitSpecGemini
    /\ [][NextGemini]_vars
    /\ WF_vars(GUpload) /\ WF_vars(GPoll) /\ WF_vars(GCheckState) /\ WF_vars(GGenerate)

SpecLedger == InitSpecLedger /\ [][NextLedger]_vars

SpecProc == InitSpecProc /\ [][NextProc]_vars

SpecWatch == InitSpecWatch /\ [][NextWatch]_vars

\* the watcher's own steps are taken when they stay possible; the arrival,
\* completion and removal of files and the hang of a child are not forced
FairSpecWatch ==
    /\ InitSpecWatch
    /\ [][NextWatch]_vars
    /\ WF_vars(CooldownExpires)
    /\ WF_vars(OnCreated)
    /\ WF_vars(RetryFire)
    /\ WF_vars(PvCheck)
    /\ WF_vars(PvSet)
    /\ WF_vars(PvScan)
    /\ WF_vars(PvRun)
    /\ WF_vars(BatchStep)
    /\ WF_vars(BatchExit)

SpecText == InitSpecText /\ [][NextText]_vars

SpecSplit == InitSpecSplit /\ [][NextSplit]_vars

SpecShort == InitSpecShort /\ [][NextShort]_vars

SpecTimeline == InitSpecTimeline /\ [][NextTimeline]_vars

SpecStream == InitSpecStream /\ [][NextStream]_vars

SpecFinal == InitSpecFinal /\ [][NextFinal]_vars

----------------------------------------------------------------------------
(* Claims about the orchestrator (SpecOrch)                                *)

\* Positions of the enabled entries of the configured list
EnabledIdx == {i \in 1..Len(summarization_models) : summarization_models[i].enabled}
NthEnabled(k) ==
    CHOOSE i \in EnabledIdx : Cardinality({j \in EnabledIdx : j <= i}) = k
\* Trace entries of the configured backend i that reached its adapter
CallsOf(i) ==
    {k \in 1..Len(otrace) : otrace[k].name = summarization_models[i].name
                            /\ otrace[k].invoked}
Succeeded(i) == \E k \in CallsOf(i) : Truthy(otrace[k].value)
KnownType(i) == summarization_models[i].type \in {"gemini", "ollama"}

\* C1: text mode tries the enabled backends in configured order; when the
\* first K enabled backends fail and backend K+1 returns non-empty text,
\* the call returns exactly that text and that backend's name, each of the
\* first K+1 backends was invoked exactly once, none after K+1 was invoked,
\* and a backend with enabled=false is never invoked.
C1_TextFallback ==
    omode = "text" =>
      /\ \A i \in 1..Len(summarization_models) :
            ~summarization_models[i].enabled => CallsOf(i) = {}
      /\ Len(otrace) <= Cardinality(EnabledIdx)
      /\ \A k \in 1..Len(otrace) :
            otrace[k].name = summarization_models[NthEnabled(k)].name
      /\ opc = "done" =>
            \A i \in EnabledIdx :
               (Succeeded(i) /\ \A j \in EnabledIdx : j < i => ~Succeeded(j)) =>
                  /\ \E k \in CallsOf(i) : oret.summary = otrace[k].value
                  /\ oret.model = summarization_models[i].name
                  /\ \A j \in EnabledIdx :
                        /\ (j <= i /\ KnownType(j)) => Cardinality(CallsOf(j)) = 1
                        /\ j > i => CallsOf(j) = {}

\* C1 witness: an enabled backend was invoked and failed, the next one
\* succeeded, and an enabled backend after it was left alone
C1_Witness ==
    /\ omode = "text" /\ opc = "done"
    /\ \E i \in EnabledIdx :
          /\ Succeeded(i)
          /\ \E j \in EnabledIdx : j < i /\ CallsOf(j) # {}
          /\ \E j \in EnabledIdx : j > i

\* C2: direct mode, existing file, client loaded: when the first K hosted
\* backends fail and hosted backend K+1 answers with a non-empty unblocked
\* response, summarize_from_video returns that response, that backend's
\* name and the reported duration, and tries no backend after K+1.
C2_DirectFallback ==
    (omode = "video" /\ opc = "done" /\ video_exists /\ gemini_client) =>
       \A k \in 1..Len(oremote) :
          (Truthy(oremote[k].summary)
             /\ \A j \in 1..(k - 1) : ~Truthy(oremote[j].summary)) =>
                /\ oret = [summary |-> oremote[k].summary,
                           model |-> gemini_models[k].name,
                           duration |-> oremote[k].duration]
                /\ Len(otrace) = k

\* C3: whatever the backends do, neither call raises, and the result is
\* the empty result exactly when no invoked backend produced a non-empty
\* unblocked result.
C3_NeverRaises ==
    /\ opc # "raised"
    /\ opc = "done" =>
          ((oret = EmptyResult) <=>
             \A k \in 1..Len(otrace) : ~(otrace[k].invoked /\ Truthy(otrace[k].value)))

\* C3 witness: a call ended empty after one backend raised, another
\* returned nothing and an entry of unknown kind was passed over
C3_Witness ==
    /\ opc = "done" /\ oret = EmptyResult
    /\ \E k \in 1..Len(otrace) : otrace[k].raised
    /\ \E k \in 1..Len(otrace) : otrace[k].invoked /\ ~otrace[k].raised
    /\ \E k \in 1..Len(otrace) : ~otrace[k].invoked /\ ~otrace[k].raised

----------------------------------------------------------------------------
(* Claims about generate_from_video (SpecGemini)                           *)

\* C4: whenever the upload succeeded, deletion of the uploaded file has
\* been attempted by the time the call returns, on every exit path.
C4_AlwaysCleansUp ==
    (gpc = "returned" /\ guploaded) => gdelete_attempted

----------------------------------------------------------------------------
(* Claims about the ledger and the batch driver (SpecLedger)               *)

Running == bpc \in {"loop", "saving"}
LastAttempt == attempted[Len(attempted)]

\* C5: with skip-if-processed enabled, no run attempts a path whose
\* recorded entry has success=true, across runs, restarts and crashes.
C5_SuccessNeverReprocessed ==
    (Running /\ skip_processed) =>
       \A k \in 1..Len(attempted) :
          ~\E e \in committed_at_start : e.path = attempted[k].path /\ e.success

\* C6: the ledger read at startup contains every entry whose rewrite had
\* completed, whatever crashed since.
C6_CrashSafeLedger == committed_at_start \subseteq loaded_log

\* C7 as stated: the skip filter drops only paths recorded with
\* success=true.
C7_SkipOnlySuccess ==
    \A p \in skipped : \E e \in loaded_log : e.path = p /\ e.success

\* C7 amended: the skip filter drops exactly the paths that have a ledger
\* entry, whatever its success flag.
C7_SkipAnyEntry ==
    skipped = IF skip_processed
              THEN {p \in Range(VideoDir) : \E e \in loaded_log : e.path = p}
              ELSE {}

\* C7 witness: a path recorded with success=false was dropped by the filter
C7_Witness ==
    \E p \in skipped : \E e \in loaded_log : e.path = p /\ ~e.success

\* C8: with skip-if-processed enabled, a run schedules no path that the
\* ledger it loaded records with success=false.
C8_FailedNotRetried ==
    (Running /\ skip_processed) =>
       \A k \in 1..Len(video_files) :
          ~\E e \in loaded_log : e.path = video_files[k] /\ ~e.success

\* C8 witness: a run with the policy on, a failed entry in its ledger and
\* another asset under way
C8_Witness ==
    /\ Running /\ skip_processed /\ attempted # <<>>
    /\ \E e \in loaded_log : ~e.success

\* C9: when asset i+1 is about to start, the ledger file is complete and
\* holds asset i's entry with that attempt's success flag.
C9_SavedBeforeNext ==
    (bpc = "loop" /\ bi >= 2) =>
       /\ ledger_file.state = "ok"
       /\ \E e \in ledger_file.videos :
             /\ e.path = video_files[bi - 1]
             /\ e.path = attempted[bi - 1].path
             /\ e.success = attempted[bi - 1].success

\* C9 witness: the second asset is about to start after a failed first one
C9_Witness ==
    /\ bpc = "loop" /\ bi = 2 /\ bi <= Len(video_files)
    /\ ~attempted[1].success

\* C10: the ledger holds one entry per path; after an attempt is recorded
\* the path's entry carries that attempt's timestamp and flag, and a path
\* recorded with success=true is processed.
UniqueKeys(d) == \A e1 \in d, e2 \in d : e1.path = e2.path => e1 = e2
C10_OneEntryPerPath ==
    /\ UniqueKeys(processed_log)
    /\ UniqueKeys(ledger_file.videos)
    /\ bpc = "saving" =>
          /\ [path |-> LastAttempt.path, processed_at |-> now,
              success |-> LastAttempt.success] \in processed_log
          /\ LastAttempt.success => IsProcessed(processed_log, LastAttempt.path)

\* C10 witness: a second attempt was recorded for a path that already had
\* an entry, with the other success flag
C10_Witness ==
    /\ bpc = "saving"
    /\ \E e \in loaded_log : e.path = LastAttempt.path /\ e.success # LastAttempt.success

----------------------------------------------------------------------------
(* Claims about failures in the batch loop (SpecLedger)                    *)

\* The run left the loop by itself: it finished, or an exception ended it
RunOver == bpc = "idle" /\ bexit \in {"finished", "error"}

\* C11: when processing fails for an asset (unknown duration, reject, all
\* backends exhausted, empty transcript) its ledger entry is written with
\* success=false; with continue-on-error every scheduled asset is attempted
\* exactly once in the run, and without it no asset after the first failed
\* one is attempted or recorded.
C11_FailureRecorded ==
    /\ \A k \in 1..Len(attempted) : attempted[k].path = video_files[k]
    /\ ((bpc = "loop" \/ RunOver) /\ ledger_file.state # "absent") =>
          \A k \in 1..Len(attempted) :
             ~attempted[k].success =>
                \E e \in ledger_file.videos :
                   e.path = attempted[k].path /\ ~e.success
    /\ (RunOver /\ continue_on_error) => Len(attempted) = Len(video_files)
    /\ ~continue_on_error =>
          \A k \in 1..(Len(attempted) - 1) : attempted[k].success

\* C12: no failure in any step of an asset's attempt, the rewrite of the
\* ledger included, propagates out of the batch loop: with
\* continue-on-error every scheduled asset is attempted unless the operator
\* interrupts.
C12_NoFailureEscapes ==
    /\ bexit # "error"
    /\ (bpc = "idle" /\ bexit = "finished" /\ continue_on_error) =>
          Len(attempted) = Len(video_files)

----------------------------------------------------------------------------
(* Claims about the watcher (SpecWatch)                                    *)

\* C13: at most one batch run (the body of process_videos, the main-script
\* subprocess included) is in progress at any time under every interleaving
\* of the event thread and the retry-timer threads, and a retry timer that
\* fires while a batch is in progress starts no batch.
C13_OneBatchAtATime ==
    /\ Cardinality({t \in Threads : InBatch(t)}) <= 1
    /\ \A f \in wfired : f.busy => ~f.started

\* C14: the batch script is launched only when every file in the pending
\* set exists and is stable (size unchanged across the sampling window and
\* non-zero), that is, was found so by the check of the launching attempt.
C14_LaunchOnlyWhenStable == wlaunch_unchecked = {}

\* C15: the ledger file has a single writer at a time: no two batch
\* processes overlap in their load-modify-rewrite, so an entry recorded by
\* one batch run is never lost through another run's wholesale rewrite.
C15_SingleWriter ==
    /\ Cardinality({t \in Threads : wpc[t] = "pv_batch"}) <= 1
    /\ \A p \in wrecorded : HasKey(ledger_file.videos, p)

\* C37: every video file the watcher detects is eventually dropped because
\* it no longer exists or covered by a batch run that starts after it was
\* detected and found stable; in particular the completion of a run clears
\* from the pending set only files that the attempt which launched the run
\* had found stable, never a file that arrived after the run started.
C37_ClearedOnlyByCoveringRun ==
    [][\A t \in Threads :
          (wpc[t] = "pv_batch" /\ wpc'[t] = Rest(t))
             => (pending_files \ pending_files') \subseteq wchecked[t]]_vars

\* C38: the in-progress flag is released on every exit path of a batch
\* attempt and is true only while some attempt is executing, so the watcher
\* never becomes permanently unable to start a batch: whenever the flag is
\* set it is released later.
FlagOnlyWhileExecuting == processing => \E t \in Threads : InBatch(t)
FlagReleasedOnExit ==
    [][\A t \in Threads : (InBatch(t) /\ ~InBatch(t)') => ~processing']_vars
----------------------------------------------------------------------------
(* Claims about termination of a backend call (FairSpecGemini)             *)

\* C16: every backend invocation terminates: a hosted upload whose remote
\* state never leaves PROCESSING ends as that backend's failure, so the
\* call eventually returns.
C16_EventuallyReturns == <>(gpc = "returned")

----------------------------------------------------------------------------
(* Claims about the strategy selector and the direct-mode attempt          *)
(* (SpecProc)                                                              *)

StrategyKnown == ppc \in {"transform", "summarize", "finish", "done"}
Picks(speedup, fps, audio_only) ==
    /\ strategy.speedup = speedup
    /\ strategy.fps = fps
    /\ strategy.audio_only = audio_only

\* C17: on durations in (0,240] minutes the selector picks exactly one tier
\* with inclusive upper bounds: d<=40 gives (1.0, no fps, video), 40<d<=80
\* gives (2.0, no fps, video), 80<d<=120 gives (2.0, 0.5, video),
\* 120<d<=240 gives (2.0, no fps, audio only); every d>240 yields Reject.
C17_TierPartition ==
    (StrategyKnown /\ info_duration > 0) =>
       /\ info_duration <= 40 * 60 => Picks(1, "None", FALSE)
       /\ (40 * 60 < info_duration /\ info_duration <= 80 * 60) =>
             Picks(2, "None", FALSE)
       /\ (80 * 60 < info_duration /\ info_duration <= 120 * 60) =>
             Picks(2, "0.5", FALSE)
       /\ (120 * 60 < info_duration /\ info_duration <= 240 * 60) =>
             Picks(2, "None", TRUE)
       /\ info_duration > 240 * 60 => strategy = NoStrategy /\ plog = "too_long"
C17_Witness ==
    /\ ppc = "done"
    /\ info_duration = 80 * 60
    /\ strategy.description = "tier2"

\* C18: for every duration d <= 0 (zero or unknown because the metadata
\* read failed, or negative) the selector returns no tier strategy and the
\* caller does not handle the outcome as the too-long Reject.
C18_UnknownDurationDistinct ==
    (StrategyKnown /\ info_duration <= 0) =>
       /\ strategy = NoStrategy
       /\ plog # "too_long"

\* C19: for an asset the selector rejects (duration above 240 minutes) the
\* attempt ends as failed with no transform applied, no backend invoked and
\* no output artifact written.
C19_RejectStopsAttempt ==
    (StrategyKnown /\ info_duration > 240 * 60) =>
       /\ ppc = "done"
       /\ presult = "False"
       /\ ptransform.fn = "none"
       /\ ~pbackend.called
       /\ ~partifacts
       /\ ~temp_exists
C19_Witness == ppc = "done" /\ info_duration = 300 * 60 /\ presult = "False"

\* C20: for every duration in (0,240] minutes the estimated cost is
\* (seconds / speedup) x rate with rate 87 for tiers 1 and 2, 59.5 for tier
\* 3 and 32 for tier 4; a 55-minute asset selects tier 2, its transform is
\* called with speedup 2.0 and its estimate is 143550. Amounts are compared
\* in quarter tokens: 4 x 87 = 348, 4 x 59.5 = 238, 4 x 32 = 128.
C20_EstimatedCost ==
    /\ (StrategyKnown /\ 0 < info_duration /\ info_duration <= 240 * 60) =>
          LET sp == IF info_duration <= 40 * 60 THEN 1 ELSE 2
              rate_x4 == IF info_duration <= 80 * 60 THEN 348
                         ELSE IF info_duration <= 120 * 60 THEN 238
                         ELSE 128
          IN  strategy.estimated_tokens * sp = info_duration * rate_x4
    /\ (StrategyKnown /\ info_duration = 55 * 60) =>
          /\ strategy.description = "tier2"
          /\ Picks(2, "None", FALSE)
          /\ strategy.estimated_tokens = 4 * 143550
    /\ (ppc \in {"summarize", "finish", "done"} /\ info_duration = 55 * 60) =>
          ptransform = [fn |-> "speed_up_video", speedup |-> 2]
C20_Witness ==
    /\ ppc = "done"
    /\ info_duration = 55 * 60
    /\ ptransform.fn = "speed_up_video"
    /\ strategy.estimated_tokens = 4 * 143550

\* C21: within one tier the estimated cost is non-decreasing in duration
\* (checked from each duration to the next second of the same tier, which
\* gives every pair by transitivity), and for every duration > 0 and equal
\* speedup the audio-only estimate is strictly lower than the estimate at
\* frame rate 1.0.
C21_CostMonotone ==
    (StrategyKnown /\ info_duration > 0 /\ strategy # NoStrategy) =>
       /\ (info_duration < MaxDurationSec
           /\ GetStrategy(info_duration + 1).description = strategy.description) =>
             strategy.estimated_tokens <= GetStrategy(info_duration + 1).estimated_tokens
       /\ \A sp \in {1, 2} :
             EstimateTokens(info_duration,
                            [speedup |-> sp, fps |-> "None", audio_only |-> TRUE])
             < EstimateTokens(info_duration,
                              [speedup |-> sp, fps |-> "None", audio_only |-> FALSE])
C21_Witness ==
    /\ ppc = "done"
    /\ strategy.audio_only
    /\ strategy.estimated_tokens < GetStrategy(info_duration + 1).estimated_tokens

\* C22: the frame rate the selector chose for an asset (0.5 for tier 3, the
\* default otherwise) is the frame rate carried in the generate request the
\* hosted backend receives for that asset: when a hosted backend is usable
\* and answers, a request is received and it carries that frame rate.
C22_FpsForwarded ==
    (ppc \in {"finish", "done"} /\ pbackend.called /\ pbackend.usable
     /\ pbackend.remote = "response") =>
       /\ pbackend.requests # {}
       /\ \A q \in pbackend.requests : q.fps = strategy.fps

\* C24: applying a speed-up strategy never raises to the caller: when the
\* re-encode delivers no file the transform returns the source path with
\* is_temp false, leaves no temporary output behind, and the attempt goes
\* on with the source file being sent to the backend.
C24_SpeedUpDegrades ==
    (ptransform.fn = "speed_up_video" /\ processed_path = "source") =>
       /\ ~is_temp
       /\ ~temp_exists
       /\ ppc = "done" => (pbackend.called /\ pbackend.path = "source")

\* C25: no temporary file created for an asset survives that asset's
\* direct-mode attempt.
C25_NoTempSurvives == ppc = "done" => ~temp_exists

\* C26: the cleanup never deletes the source asset: with speedup 1.0 and
\* audio_only false the path handed to the backend is the source path with
\* is_temp false, and for every strategy and transform outcome is_temp is
\* true only when the transformed path differs from the source path.
C26_SourceNeverDeleted ==
    /\ is_temp => processed_path # "source"
    /\ punlinked # "source"
    /\ (ppc \in {"summarize", "finish", "done"} /\ strategy # NoStrategy
        /\ strategy.speedup = 1 /\ ~strategy.audio_only) =>
          /\ processed_path = "source"
          /\ ~is_temp
          /\ pbackend.called => pbackend.path = "source"
C26_Witness ==
    /\ ppc = "done"
    /\ strategy.description = "tier1"
    /\ pbackend.called
    /\ pbackend.path = "source"
    /\ punlinked = "none"

----------------------------------------------------------------------------
(* Claims about direct mode in the orchestrator (SpecOrch)                 *)

\* C23: in direct mode only hosted (gemini) backends are ever called: a
\* local streaming backend is never called whatever its position in the
\* configured list, and if no hosted backend is enabled the call fails
\* without calling anything.
C23_OnlyHostedInDirectMode ==
    omode = "video" =>
       /\ \A k \in 1..Len(otrace) :
             \E i \in 1..Len(summarization_models) :
                /\ summarization_models[i].name = otrace[k].name
                /\ summarization_models[i].type = "gemini"
                /\ summarization_models[i].enabled
       /\ (\A i \in EnabledIdx : summarization_models[i].type # "gemini") =>
             /\ otrace = <<>>
             /\ opc = "done" => oret = EmptyResult
C23_Witness ==
    /\ omode = "video"
    /\ opc = "done"
    /\ Len(otrace) >= 1
    /\ \E i \in EnabledIdx : summarization_models[i].type = "ollama"

----------------------------------------------------------------------------
(* Claims about the text-mode attempt (SpecText)                           *)

C32_ArtifactsMeanSuccess ==
    tpc = "done" =>
       /\ (Truthy(tsummary.summary) /\ twritten = RegularArtifacts) =>
             tresult = "True"
       /\ tresult = "False" =>
             \A k \in 1..Len(twritten) : twritten[k] \notin Range(RegularArtifacts)

----------------------------------------------------------------------------
(* Claims about parse_dual_summary (SpecSplit)                             *)

\* The ways to read the given text as detailMarker + A + shortMarker + B:
\* the positions of a short-form marker that starts after the leading
\* detailed marker has ended
Decompositions(t) ==
    {j \in Occurrences(YoutubeMarker, t) :
        StartsWith(DetailMarker, t) /\ j >= Len(DetailMarker)}
PartA(t, j) == Slice(t, Len(DetailMarker), j)
PartB(t, j) == Slice(t, j + Len(YoutubeMarker), Len(t))

\* C28 as stated: for all texts A and B, the split of
\* detailMarker + A + shortMarker + B returns exactly (trim(A), trim(B)).
C28_RoundTrip ==
    spc = "split" =>
       \A j \in Decompositions(stext) :
          /\ sout.detailed = Strip(PartA(stext, j))
          /\ sout.youtube = Strip(PartB(stext, j))

\* C28 amended: for all texts A and B such that the short-form marker does
\* not occur in detailMarker + A + shortMarker before the appended one, the
\* split of detailMarker + A + shortMarker + B returns exactly
\* (trim(A), trim(B)).
C28_RoundTripFirstMarker ==
    spc = "split" =>
       \A j \in Decompositions(stext) :
          Find(YoutubeMarker, stext) = j =>
             /\ sout.split
             /\ sout.detailed = Strip(PartA(stext, j))
             /\ sout.youtube = Strip(PartB(stext, j))
C28_Witness ==
    /\ spc = "split"
    /\ stext = DetailMarker \o <<" ", "x">> \o YoutubeMarker \o <<"x">>
    /\ sout.detailed = <<"x">>
    /\ sout.youtube = <<"x">>

\* C29: the no-split result (two empty strings) is returned exactly when
\* the detailed marker is missing, the short-form marker is missing, or no
\* short-form marker occurs after the detailed marker; whenever a
\* short-form marker does occur strictly after the detailed marker, the
\* split is performed.
C29_NoSplitExactlyWhen ==
    spc = "split" =>
       (~sout.split <=>
          \/ ~Contains(DetailMarker, stext)
          \/ ~Contains(YoutubeMarker, stext)
          \/ ~\E y \in Occurrences(YoutubeMarker, stext) :
                 y > Find(DetailMarker, stext))

----------------------------------------------------------------------------
(* Claims about the short form (SpecShort)                                 *)

\* C30: for every non-empty detailed text x, including x with no
\* emphasized spans and no overview section, the short form derived from x
\* satisfies the short-form validation.
C30_DerivedShortFormValid ==
    /\ ypc = "validated" => yvalid
    /\ ypc \in {"derived", "validated"} => ValidateYoutubeFormat(youtube)
C30_Witness ==
    /\ ypc = "validated"
    /\ yvalid
    /\ ysummary # <<>>
    /\ Topics(ysummary) = <<>>
    /\ ~Contains(OverviewWord, ysummary)

\* The emphasized spans of one line, left to right, and of a text, line by
\* line, each stripped as a bullet is
RECURSIVE SpansOfLine(_)
SpansOfLine(line) ==
    IF ~HasBold(line) THEN <<>>
    ELSE LET i == CHOOSE a \in BoldStarts(line) : \A b \in BoldStarts(line) : a <= b
         IN  <<StripWs(FirstBold(line))>>
             \o SpansOfLine(SubSeq(line, NextStar(line, i) + 2, Len(line)))
RECURSIVE SpansOfLines(_)
SpansOfLines(lines) ==
    IF lines = <<>> THEN <<>>
    ELSE SpansOfLine(Head(lines)) \o SpansOfLines(Tail(lines))
Spans(text) == SpansOfLines(SplitOn("nl", text))

\* The bullet lines of a short form: what stands between the line of the
\* label and the closing phrase
BulletBlock(text) ==
    Slice(text, Find(<<"label">>, text) + 2, Find(<<"closing">>, text) - 2)
BulletCount(text) == Cardinality(Occurrences(<<"bullet">>, BulletBlock(text)))

\* C34: the short form shows as bullets the first up-to-5 emphasized spans
\* of the text in order of first appearance, every span counting wherever
\* it occurs (several on one line, spans of any length); the number of
\* bullets is between 1 and 5, and the single default bullet is used
\* exactly when the text holds no emphasized span.
C34_BulletsAreFirstSpans ==
    ypc \in {"derived", "validated"} =>
       /\ BulletCount(youtube) \in 1..MaxTopics
       /\ BulletBlock(youtube) = <<"bullet", " ", "default">>
             <=> Spans(ysummary) = <<>>
       /\ Spans(ysummary) # <<>> =>
             BulletBlock(youtube) =
                Join(<<"nl">>, BulletLines(Take(Spans(ysummary), MaxTopics)))

\* The overview as shown in a short form: what stands between the title
\* and the label, without the ellipsis
OverviewBlock(text) == Slice(text, 4, Find(<<"label">>, text) - 2)
HasEllipsis(text) == Contains(<<"...">>, OverviewBlock(text))
ShownOverview(text) ==
    IF HasEllipsis(text)
    THEN Slice(OverviewBlock(text), 0, Len(OverviewBlock(text)) - 1)
    ELSE OverviewBlock(text)

\* C35: the overview shown is at most 150 characters, and the ellipsis is
\* appended exactly when the overview was longer than 150 characters, that
\* is exactly when characters were cut off.
C35_EllipsisWhenCut ==
    ypc \in {"derived", "validated"} =>
       /\ Len(ShownOverview(youtube)) <= OverviewLimit
       /\ HasEllipsis(youtube)
             <=> Len(StripWs(Overview(ysummary))) > OverviewLimit
       /\ HasEllipsis(youtube)
             <=> ShownOverview(youtube) # StripWs(Overview(ysummary))

----------------------------------------------------------------------------
(* Claims about the token budget (SpecProc)                                *)

\* The largest estimate of each tier, in tokens
TierMaximum(description) ==
    CASE description = "tier1" -> 208800
      [] description = "tier2" -> 208800
      [] description = "tier3" -> 214200
      [] description = "tier4" -> 230400

\* C39: for every duration in (0, 240] minutes the estimated cost of the
\* selected strategy never exceeds the effective limit 237500 (the maxima
\* are 208800 at 40 and at 80 minutes, 214200 at 120 minutes and 230400 at
\* 240 minutes), so the over-limit warning is never given for an accepted
\* asset.
C39_WithinEffectiveLimit ==
    /\ EFFECTIVE_LIMIT_X4 = TokenScale * 237500
    /\ GetStrategy(Tier1MaxMinutes * SecondsPerMinute).estimated_tokens
          = TokenScale * TierMaximum("tier1")
    /\ GetStrategy(Tier2MaxMinutes * SecondsPerMinute).estimated_tokens
          = TokenScale * TierMaximum("tier2")
    /\ GetStrategy(Tier3MaxMinutes * SecondsPerMinute).estimated_tokens
          = TokenScale * TierMaximum("tier3")
    /\ GetStrategy(Tier4MaxMinutes * SecondsPerMinute).estimated_tokens
          = TokenScale * TierMaximum("tier4")
    /\ (StrategyKnown /\ info_duration > 0 /\ strategy # NoStrategy) =>
          /\ strategy.estimated_tokens
                <= TokenScale * TierMaximum(strategy.description)
          /\ strategy.estimated_tokens <= EFFECTIVE_LIMIT_X4
          /\ ~OverLimitWarning(strategy)
C39_Witness ==
    /\ ppc = "done"
    /\ info_duration = Tier4MaxMinutes * SecondsPerMinute
    /\ strategy.description = "tier4"
    /\ strategy.estimated_tokens = TokenScale * 230400
    /\ ~OverLimitWarning(strategy)

----------------------------------------------------------------------------
(* Claims about the timeline (SpecTimeline)                                *)

\* C36: create_timeline(segments, num_points) returns an order-preserving
\* selection of the segments that starts with the first segment, holds no
\* more than num_points entries, and is empty exactly when there are no
\* segments.
C36_TimelineSelection ==
    kpc = "made" =>
       /\ timeline = <<>> <=> segments = <<>>
       /\ segments # <<>> => timeline[1] = TimePoint(segments[1])
       /\ \A k \in 1..Len(timeline) :
             \E i \in 1..Len(segments) : timeline[k] = TimePoint(segments[i])
       /\ \A k \in 1..(Len(timeline) - 1) :
             timeline[k].seconds < timeline[k + 1].seconds
       /\ Len(timeline) <= num_points

----------------------------------------------------------------------------
(* Claims about the local streaming call (SpecStream)                      *)

RECURSIVE Concat(_)
Concat(ts) == IF ts = <<>> THEN <<>> ELSE Head(ts) \o Concat(Tail(ts))

\* C33: a local-streaming call yields the trimmed concatenation, in order
\* of arrival, of the partial tokens received up to the done signal; a
\* stream that ends or stalls before the done signal, or whose accumulated
\* text is empty, is the backend's failure and never a success.
C33_OnlyDoneStreamsSucceed ==
    lpc = "returned" =>
       /\ (lend = "done" /\ Concat(ltokens) # <<>>) =>
             lret = Strip(Concat(ltokens))
       /\ (lend # "done" \/ Concat(ltokens) = <<>>) => ~Truthy(lret)

----------------------------------------------------------------------------
(* Claims about the finalization of a direct-mode response (SpecFinal)     *)

\* C31: for every non-empty backend response the short form that is kept
\* for saving satisfies the validation; when the split yields an empty
\* detailed or short-form part, the detailed text is the entire response
\* and the short form is the one derived from it; when the split short
\* form fails the validation it is replaced by the one derived from the
\* detailed text.
C31_FinalShortFormValid ==
    ypc = "final" =>
       /\ ValidateYoutubeFormat(youtube)
       /\ (sout.detailed = <<>> \/ sout.youtube = <<>>) =>
             /\ ysummary = stext
             /\ youtube = GenerateYoutubeSimple(stext)
       /\ (sout.detailed # <<>> /\ sout.youtube # <<>>
           /\ ~ValidateYoutubeFormat(sout.youtube)) =>
             /\ ysummary = sout.detailed
             /\ youtube = GenerateYoutubeSimple(sout.detailed)
C31_Witness ==
    /\ ypc = "final"
    /\ sout.split
    /\ sout.detailed = <<"x">>
    /\ sout.youtube = <<"memo">>
    /\ ~yvalid
    /\ youtube = GenerateYoutubeSimple(<<"x">>)

====
